---- MODULE Spec2Model ----
(***************************************************************************)
(* Model of fairscore-app/src/services/solscan.js: the RPC gateway         *)
(* (rpcCall), the address classifier (isKnownProgramOrAuthority), the      *)
(* deployer resolver (findRealDeployer / findRealDeployerViaRPC) and the   *)
(* wallet provenance analyzer (getDeployerInfo and its two back ends).     *)
(*                                                                         *)
(* JavaScript values are represented as follows.                           *)
(*   - strings are TLA+ strings; a null/undefined string is Null;          *)
(*   - every other nullable value (number, array, object) is an option:    *)
(*     None for null/undefined, Some(v) otherwise;                         *)
(*   - arrays are sequences, objects are records.                          *)
(* Each async function is cut at its awaits: one action per network        *)
(* request together with the synchronous code that follows it.             *)
(***************************************************************************)
EXTENDS Integers, Sequences, FiniteSets, TLC

VARIABLES
    heliusKey,   \* VITE_HELIUS_API_KEY is set (solscan.js:2)
    now,         \* Date.now(), milliseconds
    chain,       \* what the chain holds for the queried address (environment)
    args,        \* the arguments of the call under way
    pc,          \* where the call stands
    locals,      \* the local variables the call still needs
    net,         \* the network requests issued so far, in order
    ret,         \* the value returned (meaningful once pc = "done")
    threw        \* the call ended by throwing

vars == <<heliusKey, now, chain, args, pc, locals, net, ret, threw>>

----------------------------------------------------------------------------
\* JavaScript values

Null == "<null>"
None == <<>>
Some(v) == <<v>>

\* x || 0 for a nullable number
OrZero(x) == IF x = None THEN 0 ELSE x[1]

\* truthiness of a nullable number: null, undefined and 0 are falsy
TruthyNum(x) == x # None /\ x[1] # 0

\* truthiness of a nullable string: null, undefined and '' are falsy
TruthyStr(s) == s # Null /\ s # ""

\* Array.prototype.includes
includes(arr, x) == \E i \in 1..Len(arr) : arr[i] = x

\* String.prototype.endsWith
endsWith(s, suffix) ==
    /\ Len(s) >= Len(suffix)
    /\ SubSeq(s, Len(s) - Len(suffix) + 1, Len(s)) = suffix

----------------------------------------------------------------------------
\* Configuration (solscan.js:1-32)

HELIUS_ENHANCED_API(key) == IF key THEN "https://api.helius.xyz/v0" ELSE Null

RPC_ENDPOINTS(key) ==
    (IF key THEN <<"https://mainnet.helius-rpc.com/">> ELSE <<>>)
        \o <<"https://solana-rpc.publicnode.com">>

KNOWN_MINT_AUTHORITIES ==
    << "TSLvdd1pWpHVjahSpsvCXUbgwsL3JAcvokwaKt1eokM",
       "39azUYFWPz3VHgKCf3VChUwbpURdCHRxjWVowf5jUJjg",
       "Ce6TQqeHC9p8KetsN6JsjHK7UTZk7nasjjnr7XxXp9F1" >>

KNOWN_PROGRAMS ==
    << "11111111111111111111111111111111",
       "TokenkegQfeZyiNwAJbNbGKPFXCWuBvf9Ss623VQ5DA",
       "ATokenGPvbdGVxr1b2hvZbsiqW5xWH25efTNsLJA8knL",
       "6EF8rrecthR5Dkzon8Nwu78hRvfCKubJ14M5uBEwF6P",
       "ComputeBudget111111111111111111111111111111",
       "Sysvar1111111111111111111111111111111111111",
       "SysvarRent111111111111111111111111111111111" >>

\* the suffix tested at solscan.js:85 (22 characters)
SYSTEM_SUFFIX == "1111111111111111111111"

----------------------------------------------------------------------------
\* Address classifier (solscan.js:80-87)

isKnownProgramOrAuthority_NoPrograms(pubkey) ==
    IF ~TruthyStr(pubkey) THEN TRUE
    ELSE IF includes(KNOWN_MINT_AUTHORITIES, pubkey) THEN TRUE
    ELSE IF endsWith(pubkey, SYSTEM_SUFFIX) THEN TRUE
    ELSE FALSE

isKnownProgramOrAuthority(pubkey) ==
    IF ~TruthyStr(pubkey) THEN TRUE
    ELSE IF includes(KNOWN_MINT_AUTHORITIES, pubkey) THEN TRUE
    ELSE IF includes(KNOWN_PROGRAMS, pubkey) THEN TRUE
    ELSE IF endsWith(pubkey, SYSTEM_SUFFIX) THEN TRUE
    ELSE FALSE

----------------------------------------------------------------------------
\* Chain Data Gateway (solscan.js:41-75)
\*
\* responses[i] is what endpoint i answers to this call:
\*   outcome "network"  : fetch rejects
\*           "status"   : response.ok is false
\*           "badjson"  : response.json() rejects
\*           "rpcerror" : the body carries an error member
\*           "ok"       : the body carries result (an option)
\* The value is [threw, result, contacted]: contacted lists the endpoints a
\* request was sent to, in order.

RpcOutcomes == {"network", "status", "badjson", "rpcerror", "ok"}

RECURSIVE rpcCallRetrySame(_, _, _, _)
rpcCallRetrySame(endpoints, responses, i, contacted) ==
    IF i > Len(endpoints)
    THEN [threw |-> TRUE, result |-> None, contacted |-> contacted]
    ELSE IF responses[i].outcome = "ok"
    THEN [threw |-> FALSE, result |-> responses[i].result,
          contacted |-> Append(contacted, endpoints[i])]
    ELSE rpcCallRetrySame(endpoints, responses, i + 1,
                          contacted \o <<endpoints[i], endpoints[i]>>)

RECURSIVE rpcCallFrom(_, _, _, _)
rpcCallFrom(endpoints, responses, i, contacted) ==
    IF i > Len(endpoints)
    THEN \* throw new Error('All RPC endpoints failed')
         [threw |-> TRUE, result |-> None, contacted |-> contacted]
    ELSE LET rpcUrl == endpoints[i]
             sent   == Append(contacted, rpcUrl)
             r      == responses[i]
         IN  IF r.outcome = "network"
             THEN rpcCallFrom(endpoints, responses, i + 1, sent)   \* catch: continue
             ELSE IF r.outcome = "status"
             THEN rpcCallFrom(endpoints, responses, i + 1, sent)   \* !response.ok: continue
             ELSE IF r.outcome = "badjson"
             THEN rpcCallFrom(endpoints, responses, i + 1, sent)   \* catch: continue
             ELSE IF r.outcome = "rpcerror"
             THEN rpcCallFrom(endpoints, responses, i + 1, sent)   \* data.error: continue
             ELSE [threw |-> FALSE, result |-> r.result, contacted |-> sent]

rpcCall(endpoints, responses) == rpcCallFrom(endpoints, responses, 1, <<>>)

\* the requests one rpcCall adds to the log
\* (ok: the request was answered with a usable result)
RpcRequests(r, method, params) ==
    [i \in 1..Len(r.contacted) |->
        [url |-> r.contacted[i], method |-> method, params |-> params,
         ok |-> (~r.threw /\ i = Len(r.contacted))]]

----------------------------------------------------------------------------
\* Inputs of the classifier: the denylist, the empty values, and base58
\* strings of the two extreme address lengths that end in k digits '1'.

MaxOnes == 24
ADDRESS_LEN_MIN == 32
ADDRESS_LEN_MAX == 44

Base58 == "123456789ABCDEFGHJKLMNPQRSTUVWXYZabcdefghijkmnopqrstuvwxyz"

RECURSIVE Rep(_, _)
Rep(c, n) == IF n <= 0 THEN "" ELSE c \o Rep(c, n - 1)

FillChars == {"A", "z", "9"}

PaddedAddresses ==
    { Rep(c, len - k) \o Rep("1", k) :
        c \in FillChars, k \in 0..MaxOnes, len \in {ADDRESS_LEN_MIN, ADDRESS_LEN_MAX} }

Denylist ==
    { KNOWN_MINT_AUTHORITIES[i] : i \in 1..Len(KNOWN_MINT_AUTHORITIES) }
        \cup { KNOWN_PROGRAMS[i] : i \in 1..Len(KNOWN_PROGRAMS) }

ClassifierInputs == Denylist \cup {Null, ""} \cup PaddedAddresses

InitClassifier ==
    /\ heliusKey = FALSE
    /\ now = 0
    /\ chain = None
    /\ args \in { [pubkey |-> p] : p \in ClassifierInputs }
    /\ pc = "start"
    /\ locals = None
    /\ net = <<>>
    /\ ret = None
    /\ threw = FALSE

\* isKnownProgramOrAuthority(pubkey): pure, one step
Classify ==
    /\ pc = "start"
    /\ "pubkey" \in DOMAIN args
    /\ ret' = isKnownProgramOrAuthority(args.pubkey)
    /\ pc' = "done"
    /\ UNCHANGED <<heliusKey, now, chain, args, locals, net, threw>>

NextClassifier == Classify

SpecClassifier == InitClassifier /\ [][NextClassifier]_vars

----------------------------------------------------------------------------
\* One logical rpcCall against every combination of endpoint answers.

GatewayResults == {None, Some("result-A"), Some("result-B")}

RpcResponses(results) ==
    { [outcome |-> o, result |-> None] : o \in RpcOutcomes \ {"ok"} }
        \cup { [outcome |-> "ok", result |-> r] : r \in results }

\* one answer per endpoint of the list
ResponseLists(endpoints, results) ==
    [1..Len(endpoints) -> RpcResponses(results)]

InitGateway ==
    /\ heliusKey \in BOOLEAN
    /\ now = 0
    /\ chain = None
    /\ args \in { [method |-> m, params |-> <<"addr">>, responses |-> rs] :
                    m \in {"getSignaturesForAddress", "getTransaction"},
                    rs \in ResponseLists(RPC_ENDPOINTS(heliusKey), GatewayResults) }
    /\ pc = "start"
    /\ locals = None
    /\ net = <<>>
    /\ ret = None
    /\ threw = FALSE

\* rpcCall(method, params), run to its return or throw
RpcCall ==
    /\ pc = "start"
    /\ "responses" \in DOMAIN args
    /\ LET r == rpcCall(RPC_ENDPOINTS(heliusKey), args.responses)
       IN  /\ net' = net \o RpcRequests(r, args.method, args.params)
           /\ ret' = r.result
           /\ threw' = r.threw
    /\ pc' = "done"
    /\ UNCHANGED <<heliusKey, now, chain, args, locals>>

NextGateway == RpcCall

SpecGateway == InitGateway /\ [][NextGateway]_vars

----------------------------------------------------------------------------
\* Claims about the classifier

RECURSIVE TrailingOnes(_)
TrailingOnes(s) ==
    IF Len(s) = 0 \/ SubSeq(s, Len(s), Len(s)) # "1" THEN 0
    ELSE 1 + TrailingOnes(SubSeq(s, 1, Len(s) - 1))

IsBase58(s) ==
    \A i \in 1..Len(s) : \E j \in 1..Len(Base58) : SubSeq(s, i, i) = SubSeq(Base58, j, j)

Classified == pc = "done" /\ "pubkey" \in DOMAIN args

\* C5 as stated: the classifier is true on the denylist and on a null/empty
\* address, and false on every 44-character base58 string outside the denylist.
C5_Original ==
    Classified =>
        /\ (args.pubkey \in Denylist \cup {Null, ""} => ret = TRUE)
        /\ (/\ args.pubkey \notin Denylist \cup {Null, ""}
            /\ Len(args.pubkey) = ADDRESS_LEN_MAX
            /\ IsBase58(args.pubkey)
            => ret = FALSE)

\* C5 amended: the classifier is true on the denylist and on a null/empty
\* address; on a 44-character base58 string outside the denylist it is false
\* exactly when the string does not end in 22 digits '1'.
C5_ClassifierExclusion ==
    Classified =>
        /\ (args.pubkey \in Denylist \cup {Null, ""} => ret = TRUE)
        /\ (/\ args.pubkey \notin Denylist \cup {Null, ""}
            /\ Len(args.pubkey) = ADDRESS_LEN_MAX
            /\ IsBase58(args.pubkey)
            => (ret = FALSE <=> TrailingOnes(args.pubkey) < Len(SYSTEM_SUFFIX)))

\* a 44-character base58 string outside the denylist with 21 trailing '1's
\* has been classified as a user address
C5_Witness ==
    /\ Classified
    /\ args.pubkey \notin Denylist \cup {Null, ""}
    /\ Len(args.pubkey) = ADDRESS_LEN_MAX
    /\ IsBase58(args.pubkey)
    /\ TrailingOnes(args.pubkey) = Len(SYSTEM_SUFFIX) - 1
    /\ ret = FALSE

----------------------------------------------------------------------------
\* Claims about the gateway

GatewayDone == pc = "done" /\ "responses" \in DOMAIN args

FirstOk(responses) ==
    IF \E i \in 1..Len(responses) : responses[i].outcome = "ok"
    THEN CHOOSE i \in 1..Len(responses) :
            /\ responses[i].outcome = "ok"
            /\ \A j \in 1..(i - 1) : responses[j].outcome # "ok"
    ELSE 0

\* C6: one logical call contacts the endpoints in list order, each at most
\* once; it returns the answer of the first endpoint that succeeds and
\* contacts none after it; it throws exactly when every endpoint failed.
C6_GatewayFailover ==
    GatewayDone =>
        LET eps == RPC_ENDPOINTS(heliusKey)
            k   == FirstOk(args.responses)
        IN  /\ Len(net) <= Len(eps)
            /\ \A j \in 1..Len(net) :
                  /\ net[j].url = eps[j]
                  /\ net[j].method = args.method
                  /\ net[j].params = args.params
            /\ \A i, j \in 1..Len(net) : i # j => net[i].url # net[j].url
            /\ (k # 0 => /\ Len(net) = k
                         /\ ~threw
                         /\ ret = args.responses[k].result)
            /\ (k = 0 => threw /\ Len(net) = Len(eps))
            /\ (threw <=> \A i \in 1..Len(eps) : args.responses[i].outcome # "ok")

\* the first endpoint failed and the second one answered
C6_Witness ==
    /\ GatewayDone
    /\ Len(RPC_ENDPOINTS(heliusKey)) = 2
    /\ args.responses[1].outcome = "rpcerror"
    /\ args.responses[2].outcome = "ok"
    /\ ret = Some("result-B")
    /\ Len(net) = 2
    /\ ~threw

----------------------------------------------------------------------------
\* The chain as the RPC nodes see it.  The queried address has `history`
\* signatures, Sig(history) the newest and Sig(1) the oldest, one second
\* apart; blockTimes tells whether the node reports block times; tx is what
\* getTransaction answers for a signature of the address.

Sig(k) == "sig" \o ToString(k)

SECONDS_PER_DAY == 60 * 60 * 24

BlockTime(c, k) == IF c.blockTimes THEN Some(SECONDS_PER_DAY + k) ELSE None

Min(a, b) == IF a < b THEN a ELSE b

\* getSignaturesForAddress(address, {limit}) on a node: newest first, at most limit
SignatureBatch(c, limit) ==
    [i \in 1..Min(c.history, limit) |->
        [signature |-> Sig(c.history - i + 1),
         blockTime |-> BlockTime(c, c.history - i + 1)]]

\* the answers of the endpoints to one rpcCall: outs[i] is endpoint i's
\* outcome, result the result member of those that succeed
Responses(outs, result) ==
    [i \in 1..Len(outs) |->
        [outcome |-> outs[i], result |-> IF outs[i] = "ok" THEN result ELSE None]]

OutcomeLists(endpoints) == [1..Len(endpoints) -> RpcOutcomes]

----------------------------------------------------------------------------
\* Indexer (Helius enhanced API) answers.
\*   outcome "network" : fetch rejects          "status" : response.ok false
\*           "badjson" : response.json() rejects "ok"    : body parsed
\*   body.kind "null"      : JSON null
\*             "object"    : a JSON object that is no array (no length, no sort)
\*             "nullElems" : the array [null]
\*             "array"     : the array of transaction objects body.txs

IndexerFailure(o) == [outcome |-> o, body |-> [kind |-> "null", txs |-> <<>>]]

IndexerBody(kind, txs) == [outcome |-> "ok", body |-> [kind |-> kind, txs |-> txs]]

IndexerRequest(key, address, limit, resp) ==
    [url |-> HELIUS_ENHANCED_API(key) \o "/addresses/" \o address \o "/transactions",
     method |-> "GET", params |-> <<limit>>, ok |-> (resp.outcome = "ok")]

\* transactions.sort((a, b) => (a.timestamp || 0) - (b.timestamp || 0)):
\* ascending, stable
RECURSIVE InsertByTimestamp(_, _)
InsertByTimestamp(sorted, tx) ==
    IF sorted = <<>> THEN <<tx>>
    ELSE IF OrZero(tx.timestamp) < OrZero(sorted[Len(sorted)].timestamp)
    THEN Append(InsertByTimestamp(SubSeq(sorted, 1, Len(sorted) - 1), tx),
                sorted[Len(sorted)])
    ELSE Append(sorted, tx)

\* the list as the indexer sent it
SortByTimestamp_AsReceived(txs) == txs

RECURSIVE SortByTimestamp(_)
SortByTimestamp(txs) ==
    IF txs = <<>> THEN <<>>
    ELSE InsertByTimestamp(SortByTimestamp(SubSeq(txs, 1, Len(txs) - 1)), txs[Len(txs)])

----------------------------------------------------------------------------
\* Deployer resolver (solscan.js:96-171)

\* solscan.js:100-123: the value is [found, deployer, firstTx]
heliusDeployer_Unclassified(resp) ==
    IF resp.outcome = "ok" /\ resp.body.kind = "array" /\ Len(resp.body.txs) > 0
    THEN LET firstTx == SortByTimestamp(resp.body.txs)[1]
         IN  [found |-> TruthyStr(firstTx.feePayer), deployer |-> firstTx.feePayer,
              firstTx |-> Some(firstTx)]
    ELSE [found |-> FALSE, deployer |-> Null, firstTx |-> None]

heliusDeployer(resp) ==
    LET notFound == [found |-> FALSE, deployer |-> Null, firstTx |-> None]
    IN  IF resp.outcome # "ok" THEN notFound          \* catch, or !response.ok
        ELSE IF resp.body.kind = "null" THEN notFound   \* transactions && ...
        ELSE IF resp.body.kind = "object" THEN notFound \* undefined > 0
        ELSE IF resp.body.kind = "nullElems" THEN notFound \* firstTx.timestamp throws: catch
        ELSE IF Len(resp.body.txs) = 0 THEN notFound
        ELSE LET transactions == SortByTimestamp(resp.body.txs)
                 firstTx      == transactions[1]
             IN  IF TruthyStr(firstTx.feePayer) /\ ~isKnownProgramOrAuthority(firstTx.feePayer)
                 THEN [found |-> TRUE, deployer |-> firstTx.feePayer,
                       firstTx |-> Some(firstTx)]
                 ELSE [found |-> FALSE, deployer |-> Null, firstTx |-> Some(firstTx)]

\* solscan.js:126: the reported creator is returned without an RPC lookup
usesReportedCreator_Inverted(reportedCreator) ==
    includes(KNOWN_MINT_AUTHORITIES, reportedCreator)

usesReportedCreator(reportedCreator) ==
    ~includes(KNOWN_MINT_AUTHORITIES, reportedCreator)

\* solscan.js:141-145 and the catch at 167-170, given the outcome r of
\* rpcCall('getSignaturesForAddress', [tokenMint, {limit: 1}]).
\* The value is [returns, ret, signatures].
viaRPCSignatures_Rethrow(reportedCreator, r) ==
    IF r.threw THEN [returns |-> TRUE, ret |-> Null, signatures |-> <<>>]
    ELSE IF r.result = None \/ Len(r.result[1]) = 0
    THEN [returns |-> TRUE, ret |-> reportedCreator, signatures |-> <<>>]
    ELSE [returns |-> FALSE, ret |-> Null, signatures |-> r.result[1]]

viaRPCSignatures(reportedCreator, r) ==
    IF r.threw
    THEN [returns |-> TRUE, ret |-> reportedCreator, signatures |-> <<>>]  \* catch
    ELSE IF r.result = None \/ Len(r.result[1]) = 0
    THEN [returns |-> TRUE, ret |-> reportedCreator, signatures |-> <<>>]
    ELSE [returns |-> FALSE, ret |-> Null, signatures |-> r.result[1]]

\* solscan.js:156-164: the first signer that is no program, or Null.
\* A key is [isString, pubkey, signer]; a key given as a plain string is
\* no signer.
RECURSIVE firstSigner_AnyKey(_)
firstSigner_AnyKey(accountKeys) ==
    IF accountKeys = <<>> THEN Null
    ELSE IF ~isKnownProgramOrAuthority(accountKeys[1].pubkey)
    THEN accountKeys[1].pubkey
    ELSE firstSigner_AnyKey(Tail(accountKeys))

\* the first key flagged as signer, whatever its address
RECURSIVE firstSigner_Unclassified(_)
firstSigner_Unclassified(accountKeys) ==
    IF accountKeys = <<>> THEN Null
    ELSE IF ~accountKeys[1].isString /\ accountKeys[1].signer
    THEN accountKeys[1].pubkey
    ELSE firstSigner_Unclassified(Tail(accountKeys))

RECURSIVE firstSigner(_)
firstSigner(accountKeys) ==
    IF accountKeys = <<>> THEN Null
    ELSE LET key      == accountKeys[1]
             pubkey   == key.pubkey
             isSigner == IF key.isString THEN FALSE ELSE key.signer
         IN  IF isSigner /\ ~isKnownProgramOrAuthority(pubkey)
             THEN pubkey
             ELSE firstSigner(Tail(accountKeys))

\* solscan.js:148-170, given the outcome r of rpcCall('getTransaction', ...)
viaRPCTransaction(reportedCreator, r) ==
    IF r.threw THEN reportedCreator             \* catch
    ELSE IF r.result = None THEN reportedCreator  \* !tx
    ELSE LET tx          == r.result[1]
             accountKeys == IF tx.accountKeys = None THEN <<>> ELSE tx.accountKeys[1]
             signer      == firstSigner(accountKeys)
         IN  IF signer # Null THEN signer ELSE reportedCreator

SIGNATURE_LIMIT_RESOLVER == 1
HELIUS_LIMIT_RESOLVER == 50

----------------------------------------------------------------------------
\* Inputs of the resolver

MaxTx == 2
MaxKeys == 2
MaxHistory == 2

SeqsUpTo(S, n) == UNION { [1..k -> S] : k \in 0..n }

WalletA == "7xKXtg2CW87d97TXJSDpbD5jBkheTqA83TZRuJosgAsU"
WalletB == "9WzDXwBbmkg8ZTbNMqUxvQRAyrZzDsGYdLVL9zYtAWWM"
WalletC == "DRpbCBMxVnDK7maPM5tGv6MvB3v1sRMC86PZ8okm21hy"
PaddedWallet == "AAAAAAAAAAAAAAAAAAAAAA1111111111111111111111"
PumpMint == "2eXamy7t3kvKhfV6aJ6Uwe3eh8cuREFcTKs1mFKZpump"
PlainMint == "EPjFWdd5AufqSSqeM2qN1xzybapC8G4wEGGkZwyTDt1v"

Mints == {"", PumpMint, PlainMint}

AuthorityCreators == { KNOWN_MINT_AUTHORITIES[i] : i \in 1..Len(KNOWN_MINT_AUTHORITIES) }
OtherCreators == {"", Null, WalletA, KNOWN_PROGRAMS[1], PaddedWallet}

Timestamps == {None, Some(SECONDS_PER_DAY)}

\* the fields of an indexer transaction the resolver reads
ResolverTxs ==
    [timestamp : Timestamps,
     feePayer  : {Null, WalletB, KNOWN_MINT_AUTHORITIES[1], KNOWN_PROGRAMS[4]}]

ResolverIndexerResponses ==
    { IndexerFailure(o) : o \in {"network", "status", "badjson"} }
        \cup { IndexerBody(k, <<>>) : k \in {"null", "object", "nullElems"} }
        \cup { IndexerBody("array", txs) : txs \in SeqsUpTo(ResolverTxs, MaxTx) }

AccountKeys ==
    [isString : {FALSE}, pubkey : {WalletB, WalletC, KNOWN_PROGRAMS[2]}, signer : {TRUE}]
        \cup [isString : BOOLEAN, pubkey : {WalletB}, signer : {FALSE}]

\* a transaction as getTransaction gives it with jsonParsed encoding:
\* transaction.message.accountKeys, meta.innerInstructions, meta.logMessages
ResolverTx(accountKeys, innerInstructions, logMessages) ==
    [accountKeys |-> accountKeys, innerInstructions |-> innerInstructions,
     logMessages |-> logMessages]

SignedBy(pubkey) ==
    Some(ResolverTx(Some(<<[isString |-> FALSE, pubkey |-> pubkey, signer |-> TRUE]>>),
                    None, None))

\* one group of inner instructions holding a parsed transfer from source
InnerTransfer(source) ==
    <<[instructions |-> <<[type |-> "transfer", source |-> source]>>]>>

CREATOR_LOG_PREFIX == "Program log: creator: "

\* transactions whose account keys hold no signing wallet, with and without
\* inner transfers and a creator log line
UnsignedTxs ==
    { Some(ResolverTx(Some(ks), inner, logs)) :
        ks \in { <<>>, <<[isString |-> FALSE, pubkey |-> KNOWN_PROGRAMS[2], signer |-> TRUE]>> },
        inner \in { None, Some(InnerTransfer(WalletC)), Some(InnerTransfer(KNOWN_PROGRAMS[2])) },
        logs \in { None, Some(<<CREATOR_LOG_PREFIX \o WalletB>>) } }

\* what getTransaction answers: null, a transaction without account keys,
\* or one with up to MaxKeys keys
ResolverChainTxs ==
    {None, Some(ResolverTx(None, None, None))}
        \cup { Some(ResolverTx(Some(ks), None, None)) : ks \in SeqsUpTo(AccountKeys, MaxKeys) }
        \cup UnsignedTxs

\* every transaction with a one-signature history, two of them with the
\* other history lengths
ResolverChains ==
    [history : {1}, blockTimes : {FALSE}, tx : ResolverChainTxs]
        \cup [history : 0..MaxHistory, blockTimes : {FALSE}, tx : {None, SignedBy(WalletC)}]

\* the chains tried with a reported creator for which the code never asks
\* the RPC nodes
SampleChains ==
    [history : {MaxHistory}, blockTimes : {FALSE}, tx : {SignedBy(WalletC)}]

\* the indexer answers tried on a chain: every answer on the sample chains,
\* the answers of at most one transaction on the others
ResolverResponsesFor(c) ==
    IF c \in SampleChains
    THEN ResolverIndexerResponses
    ELSE { resp \in ResolverIndexerResponses : Len(resp.body.txs) <= 1 }

\* a platform authority is tried with every mint, the other authorities
\* with the platform's mint
AuthorityCalls ==
    { [tokenMint |-> m, reportedCreator |-> KNOWN_MINT_AUTHORITIES[1]] : m \in Mints }
        \cup { [tokenMint |-> PumpMint, reportedCreator |-> c] : c \in AuthorityCreators }

OtherCalls == [tokenMint : Mints, reportedCreator : OtherCreators]

InitResolver ==
    /\ heliusKey \in BOOLEAN
    /\ now = 0
    /\ \/ chain \in ResolverChains /\ args \in AuthorityCalls
       \/ chain \in SampleChains /\ args \in OtherCalls
    /\ pc = "start"
    /\ locals = [response |-> None, firstTx |-> None, signatures |-> <<>>]
    /\ net = <<>>
    /\ ret = None
    /\ threw = FALSE

IsResolverCall == "reportedCreator" \in DOMAIN args

\* solscan.js:125-132, the synchronous tail of findRealDeployer
ResolverFallback ==
    IF usesReportedCreator(args.reportedCreator)
    THEN pc' = "done" /\ ret' = args.reportedCreator
    ELSE pc' = "viaRPC:getSignaturesForAddress" /\ ret' = ret

\* findRealDeployer with an indexer: the request at solscan.js:104 and what
\* follows up to the return or to the first RPC request
FindRealDeployer_Indexer ==
    /\ pc = "start"
    /\ IsResolverCall
    /\ HELIUS_ENHANCED_API(heliusKey) # Null
    /\ \E resp \in ResolverResponsesFor(chain) :
         LET h == heliusDeployer(resp)
         IN  /\ net' = Append(net, IndexerRequest(heliusKey, args.tokenMint,
                                                  HELIUS_LIMIT_RESOLVER, resp))
             /\ locals' = [locals EXCEPT !.response = Some(resp), !.firstTx = h.firstTx]
             /\ IF h.found
                THEN pc' = "done" /\ ret' = h.deployer
                ELSE ResolverFallback
    /\ UNCHANGED <<heliusKey, now, chain, args, threw>>

\* findRealDeployer without an indexer
FindRealDeployer_NoIndexer ==
    /\ pc = "start"
    /\ IsResolverCall
    /\ HELIUS_ENHANCED_API(heliusKey) = Null
    /\ ResolverFallback
    /\ UNCHANGED <<heliusKey, now, chain, args, locals, net, threw>>

\* findRealDeployerViaRPC: rpcCall('getSignaturesForAddress', [tokenMint, {limit: 1}])
ViaRPC_Signatures ==
    /\ pc = "viaRPC:getSignaturesForAddress"
    /\ IsResolverCall
    /\ \E outs \in OutcomeLists(RPC_ENDPOINTS(heliusKey)),
          result \in {None, Some(SignatureBatch(chain, SIGNATURE_LIMIT_RESOLVER))} :
         LET r == rpcCall(RPC_ENDPOINTS(heliusKey), Responses(outs, result))
             s == viaRPCSignatures(args.reportedCreator, r)
         IN  /\ net' = net \o RpcRequests(r, "getSignaturesForAddress",
                                          <<args.tokenMint, SIGNATURE_LIMIT_RESOLVER>>)
             /\ locals' = [locals EXCEPT !.signatures = s.signatures]
             /\ IF s.returns
                THEN pc' = "done" /\ ret' = s.ret
                ELSE pc' = "viaRPC:getTransaction" /\ ret' = ret
    /\ UNCHANGED <<heliusKey, now, chain, args, threw>>

\* findRealDeployerViaRPC: rpcCall('getTransaction', [signatures[0].signature, ...])
\* and the signer scan
ViaRPC_Transaction ==
    /\ pc = "viaRPC:getTransaction"
    /\ IsResolverCall
    /\ \E outs \in OutcomeLists(RPC_ENDPOINTS(heliusKey)) :
         LET r == rpcCall(RPC_ENDPOINTS(heliusKey), Responses(outs, chain.tx))
         IN  /\ net' = net \o RpcRequests(r, "getTransaction",
                                          <<locals.signatures[1].signature>>)
             /\ ret' = viaRPCTransaction(args.reportedCreator, r)
             /\ pc' = "done"
    /\ UNCHANGED <<heliusKey, now, chain, args, locals, threw>>

NextResolver ==
    \/ FindRealDeployer_Indexer
    \/ FindRealDeployer_NoIndexer
    \/ ViaRPC_Signatures
    \/ ViaRPC_Transaction

SpecResolver == InitResolver /\ [][NextResolver]_vars

----------------------------------------------------------------------------
\* Claims about the resolver

ResolverDone == pc = "done" /\ IsResolverCall

\* membership in the known non-user set, as the classifier decides it
KnownNonUser(a) ==
    \/ a \in {Null, ""}
    \/ a \in Denylist
    \/ TrailingOnes(a) >= Len(SYSTEM_SUFFIX)

NoRequestAnswered == \A j \in 1..Len(net) : ~net[j].ok

\* C1: when no request is answered (indexer and every RPC endpoint fail),
\* findRealDeployer does not throw and returns reportedCreator, whatever the
\* two arguments are.
C1_Totality ==
    (ResolverDone /\ NoRequestAnswered) => (~threw /\ ret = args.reportedCreator)

\* the indexer and both RPC endpoints were asked and all failed, for an
\* authority creator and an empty mint
C1_Witness ==
    /\ ResolverDone
    /\ NoRequestAnswered
    /\ Len(net) = 3
    /\ args.tokenMint = ""
    /\ includes(KNOWN_MINT_AUTHORITIES, args.reportedCreator)
    /\ ret = args.reportedCreator

\* C2 as stated: the address returned is never in the known non-user set.
C2_Original == ResolverDone => ret \notin Denylist

\* C2 amended: the address returned is reportedCreator itself or an address
\* outside the known non-user set.
C2_NeverDenylisted ==
    ResolverDone => (ret = args.reportedCreator \/ ret \notin Denylist)

\* an address other than reportedCreator was returned by the signer scan,
\* which skipped a denylisted signer
C2_Witness ==
    /\ ResolverDone
    /\ ret = WalletC
    /\ ret # args.reportedCreator
    /\ chain.tx # None
    /\ chain.tx[1].accountKeys # None
    /\ Len(chain.tx[1].accountKeys[1]) = 2
    /\ chain.tx[1].accountKeys[1][1].pubkey \in Denylist
    /\ chain.tx[1].accountKeys[1][1].signer

FastPathCase ==
    /\ ~isKnownProgramOrAuthority(args.reportedCreator)
    /\ ~endsWith(args.tokenMint, "pump")

QualifyingSigner(keys) ==
    LET q(i) == /\ ~keys[i].isString
                /\ keys[i].signer
                /\ ~KnownNonUser(keys[i].pubkey)
    IN  IF \E i \in 1..Len(keys) : q(i)
        THEN keys[CHOOSE i \in 1..Len(keys) : q(i) /\ \A j \in 1..(i - 1) : ~q(j)].pubkey
        ELSE Null

\* what the RPC signer scan yields for the mint on this chain
ChainSigner ==
    IF chain.history = 0 \/ chain.tx = None THEN Null
    ELSE IF chain.tx[1].accountKeys = None THEN Null
    ELSE QualifyingSigner(chain.tx[1].accountKeys[1])

\* every rpcCall made was answered, and with the node's data
RpcAnswered ==
    /\ \A j \in 1..Len(net) :
          (net[j].method # "GET" /\ (j = Len(net) \/ net[j + 1].method # net[j].method))
              => net[j].ok
    /\ (\E j \in 1..Len(net) : net[j].method = "getSignaturesForAddress")
          => locals.signatures # <<>>

IndexerFeePayerKnown ==
    /\ locals.firstTx # None
    /\ TruthyStr(locals.firstTx[1].feePayer)
    /\ KnownNonUser(locals.firstTx[1].feePayer)

C8_OldestFetched ==
    ResolverDone =>
        \A j \in 1..Len(net) :
            net[j].method = "getTransaction" => net[j].params[1] = Sig(1)

\* the RPC fallback fetched and received the transaction
TransactionInspected ==
    /\ RpcAnswered
    /\ \E j \in 1..Len(net) : net[j].method = "getTransaction" /\ net[j].ok
    /\ chain.tx # None

\* the source of the first inner-instruction parsed transfer whose source is
\* no known non-user address, or Null
InnerTransferSource(tx) ==
    IF tx.innerInstructions = None THEN Null
    ELSE LET gs == tx.innerInstructions[1]
             q(g) == \E i \in 1..Len(gs[g].instructions) :
                        /\ gs[g].instructions[i].type = "transfer"
                        /\ ~KnownNonUser(gs[g].instructions[i].source)
         IN  IF \E g \in 1..Len(gs) : q(g)
             THEN LET g == CHOOSE g \in 1..Len(gs) : q(g) /\ \A h \in 1..(g - 1) : ~q(h)
                      is == gs[g].instructions
                      i == CHOOSE i \in 1..Len(is) :
                              /\ is[i].type = "transfer" /\ ~KnownNonUser(is[i].source)
                              /\ \A k \in 1..(i - 1) :
                                    ~(is[k].type = "transfer" /\ ~KnownNonUser(is[k].source))
                  IN  is[i].source
             ELSE Null

\* the address of the first 'creator: <address>' log line, or Null
LogCreator(tx) ==
    IF tx.logMessages = None THEN Null
    ELSE LET ls == tx.logMessages[1]
             n  == Len(CREATOR_LOG_PREFIX)
             q(i) == Len(ls[i]) > n /\ SubSeq(ls[i], 1, n) = CREATOR_LOG_PREFIX
         IN  IF \E i \in 1..Len(ls) : q(i)
             THEN LET i == CHOOSE i \in 1..Len(ls) : q(i) /\ \A k \in 1..(i - 1) : ~q(k)
                  IN  SubSeq(ls[i], n + 1, Len(ls[i]))
             ELSE Null

\* C18: when the inspected transaction has no qualifying signer,
\* findRealDeployer returns the source of the first inner-instruction
\* transfer that is no known non-user address, failing that the address of a
\* 'creator: <address>' log line that is no known non-user address, and only
\* failing both reportedCreator.
C18_StrategyChain ==
    (ResolverDone /\ TransactionInspected /\ ChainSigner = Null) =>
        ret = IF InnerTransferSource(chain.tx[1]) # Null
              THEN InnerTransferSource(chain.tx[1])
              ELSE IF ~KnownNonUser(LogCreator(chain.tx[1]))
              THEN LogCreator(chain.tx[1])
              ELSE args.reportedCreator

IndexerListed ==
    /\ IsResolverCall
    /\ locals.response # None
    /\ locals.response[1].outcome = "ok"
    /\ locals.response[1].body.kind = "array"
    /\ Len(locals.response[1].body.txs) > 0

\* the lists that hold the transactions of txs in another order
Reordered(txs) ==
    { [i \in 1..Len(txs) |-> txs[p[i]]] : p \in Permutations(1..Len(txs)) }

\* tx is one of txs and none of txs has a smaller timestamp, a missing
\* timestamp counting as 0
IsOldestOf(tx, txs) ==
    /\ \E i \in 1..Len(txs) : txs[i] = tx
    /\ \A i \in 1..Len(txs) : OrZero(tx.timestamp) <= OrZero(txs[i].timestamp)

\* C21: in whatever order the indexer lists the transactions, the fee payer
\* examined by findRealDeployer is that of a listed transaction of minimum
\* timestamp (a missing timestamp counts as 0); the indexer step returns it
\* as the deployer when it is present and no known non-user address, and
\* otherwise hands over to the fallback.
C21_OrderIndependent ==
    IndexerListed =>
        LET txs   == locals.response[1].body.txs
            payer == locals.firstTx[1].feePayer
        IN  /\ locals.firstTx # None
            /\ IsOldestOf(locals.firstTx[1], txs)
            /\ \A other \in Reordered(txs) :
                   LET h == heliusDeployer(IndexerBody("array", other))
                   IN  h.firstTx # None /\ IsOldestOf(h.firstTx[1], txs)
            /\ IF payer \notin {Null, ""} /\ ~KnownNonUser(payer)
               THEN pc = "done" /\ ret = payer /\ Len(net) = 1
               ELSE IF ~includes(KNOWN_MINT_AUTHORITIES, args.reportedCreator)
               THEN pc = "done" /\ ret = args.reportedCreator /\ Len(net) = 1
               ELSE Len(net) = 1 => pc = "viaRPC:getSignaturesForAddress"

\* the indexer listed the newer transaction first and the fee payer of the
\* older one, listed second, was returned
C21_Witness ==
    /\ ResolverDone
    /\ IndexerListed
    /\ Len(locals.response[1].body.txs) = 2
    /\ locals.response[1].body.txs[1].timestamp = Some(SECONDS_PER_DAY)
    /\ locals.response[1].body.txs[1].feePayer = KNOWN_PROGRAMS[4]
    /\ locals.response[1].body.txs[2].timestamp = None
    /\ locals.response[1].body.txs[2].feePayer = WalletB
    /\ ret = WalletB
    /\ Len(net) = 1

----------------------------------------------------------------------------
\* Wallet provenance analyzer (solscan.js:179-319)

DUST_THRESHOLD == 10000
HELIUS_LIMIT_PROVENANCE == 1000
SIGNATURE_LIMIT_PROVENANCE == 1000
MS_PER_DAY == 1000 * 60 * 60 * 24

NullRecord == [deployerAge |-> None, fundedBy |-> Null, fundingTx |-> Null]

\* solscan.js:239-242
isFundingTransfer_AtThreshold(transfer, walletAddress) ==
    /\ transfer.toUserAccount = walletAddress
    /\ TruthyStr(transfer.fromUserAccount)
    /\ transfer.fromUserAccount # walletAddress
    /\ transfer.amount >= DUST_THRESHOLD

isFundingTransfer(transfer, walletAddress) ==
    /\ transfer.toUserAccount = walletAddress
    /\ TruthyStr(transfer.fromUserAccount)
    /\ transfer.fromUserAccount # walletAddress
    /\ transfer.amount > DUST_THRESHOLD

\* solscan.js:238-248, the inner loop: the source of the first funding
\* transfer of the list, or Null
RECURSIVE funderIn(_, _)
funderIn(nativeTransfers, walletAddress) ==
    IF nativeTransfers = <<>> THEN Null
    ELSE IF isFundingTransfer(nativeTransfers[1], walletAddress)
    THEN nativeTransfers[1].fromUserAccount
    ELSE funderIn(Tail(nativeTransfers), walletAddress)

\* solscan.js:236-251, the outer loop over the sorted transactions
RECURSIVE findFunding(_, _)
findFunding(transactions, walletAddress) ==
    IF transactions = <<>> THEN [fundedBy |-> Null, fundingTx |-> Null]
    ELSE LET tx     == transactions[1]
             funder == IF tx.nativeTransfers = None THEN Null
                       ELSE funderIn(tx.nativeTransfers[1], walletAddress)
         IN  IF funder # Null
             THEN [fundedBy |-> funder, fundingTx |-> tx.signature]
             ELSE findFunding(Tail(transactions), walletAddress)

\* the quotient rounded toward zero instead of down
heliusAge_Truncated(nowMs, timestamp) ==
    LET ms == nowMs - timestamp * 1000
    IN  IF ms < 0 THEN 0 - ((0 - ms) \div MS_PER_DAY) ELSE ms \div MS_PER_DAY

\* Math.floor((Date.now() / 1000 - timestamp) / (60 * 60 * 24)), solscan.js:228
heliusAge(nowMs, timestamp) == (nowMs - timestamp * 1000) \div MS_PER_DAY

\* Math.floor((Date.now() - blockTime * 1000) / (1000 * 60 * 60 * 24)), solscan.js:277
rpcAge(nowMs, blockTime) == (nowMs - blockTime * 1000) \div MS_PER_DAY

\* getDeployerInfoViaHelius (solscan.js:199-255): [threw, result]
getDeployerInfoViaHelius(walletAddress, resp, nowMs) ==
    LET throws == [threw |-> TRUE, result |-> NullRecord]
    IN  IF resp.outcome # "ok" THEN throws              \* fetch/json reject, !response.ok
        ELSE IF resp.body.kind = "null" THEN throws       \* transactions.length
        ELSE IF resp.body.kind = "object" THEN throws     \* transactions.sort
        ELSE IF resp.body.kind = "nullElems" THEN throws  \* oldestTx.timestamp
        ELSE LET transactions == SortByTimestamp(resp.body.txs)
             IN  IF Len(transactions) = 0
                 THEN [threw |-> FALSE, result |-> NullRecord]
                 ELSE LET oldestTx == transactions[1]
                          deployerAge ==
                              IF TruthyNum(oldestTx.timestamp)
                              THEN Some(heliusAge(nowMs, oldestTx.timestamp[1]))
                              ELSE None
                          f == findFunding(transactions, walletAddress)
                      IN  [threw |-> FALSE,
                           result |->
                              [deployerAge |-> deployerAge,
                               fundedBy |-> f.fundedBy,
                               fundingTx |-> IF f.fundedBy # Null THEN f.fundingTx
                                             ELSE oldestTx.signature]]

returnsHeliusResult_Always(h) == ~h.threw

\* solscan.js:184: result.fundedBy || result.deployerAge
returnsHeliusResult(h) ==
    ~h.threw /\ (TruthyStr(h.result.fundedBy) \/ TruthyNum(h.result.deployerAge))

\* the node's answer to getSignaturesForAddress(address, {limit, before}):
\* the limit signatures that precede Sig(before), newest first
SignaturePage(c, limit, before) ==
    [i \in 1..Min(before - 1, limit) |->
        [signature |-> Sig(before - i), blockTime |-> BlockTime(c, before - i)]]

\* the list s sent n times over
Repeated(s, n) == [i \in 1..(n * Len(s)) |-> s[((i - 1) % Len(s)) + 1]]

\* the signature requests of the RPC path (solscan.js:265): [r, requests],
\* r the outcome of rpcCall and requests what was sent
fetchSignatures_Uncapped(endpoints, outs, c, walletAddress) ==
    LET r == rpcCall(endpoints,
                     Responses(outs, Some(SignatureBatch(c, SIGNATURE_LIMIT_PROVENANCE))))
        reqs  == RpcRequests(r, "getSignaturesForAddress",
                             <<walletAddress, SIGNATURE_LIMIT_PROVENANCE>>)
        calls == IF r.threw THEN 1 ELSE c.history \div SIGNATURE_LIMIT_PROVENANCE + 1
    IN  CHOOSE f \in { [r |-> v.r, requests |-> Repeated(v.reqs, v.calls)] :
                        v \in { [r |-> r, reqs |-> reqs, calls |-> calls] } } : TRUE

fetchSignatures(endpoints, outs, c, walletAddress) ==
    LET r == rpcCall(endpoints,
                     Responses(outs, Some(SignatureBatch(c, SIGNATURE_LIMIT_PROVENANCE))))
    IN  [r |-> r,
         requests |-> RpcRequests(r, "getSignaturesForAddress",
                                  <<walletAddress, SIGNATURE_LIMIT_PROVENANCE>>)]

\* solscan.js:267-278 and the catch at 315-318, given the outcome r of the
\* signature request: [threw, returns, ret, oldestSig, deployerAge, count]
provenanceSignatures_NoCatch(r, nowMs) ==
    IF r.threw \/ r.result = None \/ r.result[1] = <<>>
    THEN [threw |-> r.threw, returns |-> TRUE, ret |-> NullRecord,
          oldestSig |-> None, deployerAge |-> None, count |-> 0]
    ELSE LET signatures == r.result[1]
             oldestSig  == signatures[Len(signatures)]
         IN  [threw |-> FALSE, returns |-> FALSE, ret |-> NullRecord,
              oldestSig |-> Some(oldestSig),
              deployerAge |-> IF TruthyNum(oldestSig.blockTime)
                              THEN Some(rpcAge(nowMs, oldestSig.blockTime[1]))
                              ELSE None,
              count |-> Len(signatures)]

provenanceSignatures(r, nowMs) ==
    LET nothing == [threw |-> FALSE, returns |-> TRUE, ret |-> NullRecord,
                    oldestSig |-> None, deployerAge |-> None, count |-> 0]
    IN  IF r.threw THEN nothing                         \* catch
        ELSE IF r.result = None THEN nothing              \* !signatures
        ELSE IF Len(r.result[1]) = 0 THEN nothing
        ELSE LET signatures == r.result[1]
                 oldestSig  == signatures[Len(signatures)]
             IN  [threw |-> FALSE, returns |-> FALSE, ret |-> NullRecord,
                  oldestSig |-> Some(oldestSig),
                  deployerAge |-> IF TruthyNum(oldestSig.blockTime)
                                  THEN Some(rpcAge(nowMs, oldestSig.blockTime[1]))
                                  ELSE None,
                  count |-> Len(signatures)]

\* solscan.js:288-289 and 301-302: a parsed system transfer to the wallet.
\* An instruction is [type, program, destination, source], type and the two
\* addresses Null when the node did not parse them.
isTransferTo(ix, walletAddress) ==
    /\ ix.type = "transfer"
    /\ ix.program = "system"
    /\ ix.destination = walletAddress

\* solscan.js:287-294 and 300-307: [matched, source] of the first transfer to
\* the wallet in a list of instructions
RECURSIVE transferSource(_, _)
transferSource(instructions, walletAddress) ==
    IF instructions = <<>> THEN [matched |-> FALSE, source |-> Null]
    ELSE IF isTransferTo(instructions[1], walletAddress)
    THEN [matched |-> TRUE, source |-> instructions[1].source]
    ELSE transferSource(Tail(instructions), walletAddress)

\* solscan.js:299-309, over the groups of inner instructions
RECURSIVE innerSource(_, _)
innerSource(innerInstructions, walletAddress) ==
    IF innerInstructions = <<>> THEN Null
    ELSE LET group == innerInstructions[1]
             list  == IF group.instructions = None THEN <<>> ELSE group.instructions[1]
             found == transferSource(list, walletAddress)
         IN  IF found.matched /\ TruthyStr(found.source)
             THEN found.source
             ELSE innerSource(Tail(innerInstructions), walletAddress)

\* solscan.js:283-311: fundedBy out of the fetched transaction
rpcFundedBy(tx, walletAddress) ==
    LET instructions == IF tx.instructions = None THEN <<>> ELSE tx.instructions[1]
        top          == transferSource(instructions, walletAddress)
        inner        == IF tx.innerInstructions = None THEN <<>>
                        ELSE tx.innerInstructions[1]
    IN  IF top.matched /\ TruthyStr(top.source)
        THEN top.source
        ELSE innerSource(inner, walletAddress)

\* solscan.js:281-318, given the outcome r of rpcCall('getTransaction', ...)
provenanceTransaction(walletAddress, oldestSig, deployerAge, r) ==
    IF r.threw THEN NullRecord                          \* catch
    ELSE [deployerAge |-> deployerAge,
          fundedBy |-> IF r.result = None THEN Null
                       ELSE rpcFundedBy(r.result[1], walletAddress),
          fundingTx |-> oldestSig.signature]

----------------------------------------------------------------------------
\* Inputs of the provenance analyzer

MaxTransfers == 2
MaxIx == 2
MaxGroups == 2
PAGINATION_CAP == 20

OtherWallet == "5Q544fKrFoe6tsEbD7S8EmxGTJYAKtTVhAW5Q5pge4j1"

Wallets == {WalletA, ""}

ProvenanceTimestamps == {None, Some(SECONDS_PER_DAY), Some(2 * SECONDS_PER_DAY)}

Transfer(from, to, amount) ==
    [fromUserAccount |-> from, toUserAccount |-> to, amount |-> amount]

FundingTransfers(w) ==
    { Transfer(WalletB, w, DUST_THRESHOLD + 1), Transfer(WalletC, w, DUST_THRESHOLD + 1) }

\* at the dust threshold, from the wallet itself, without a source, to another account
OtherTransfers(w) ==
    { Transfer(WalletB, w, DUST_THRESHOLD),
      Transfer(w, w, DUST_THRESHOLD + 1),
      Transfer(Null, w, DUST_THRESHOLD + 1),
      Transfer(WalletB, OtherWallet, DUST_THRESHOLD + 1) }

\* the indexer transaction of position i
IndexedTx(shape, i) ==
    [timestamp |-> shape.timestamp, signature |-> Sig(i),
     nativeTransfers |-> shape.nativeTransfers]

IndexedTxs(shapes) == [i \in 1..Len(shapes) |-> IndexedTx(shapes[i], i)]

\* up to MaxTx transactions of at most one transfer each
ManyTxShapes(w) ==
    SeqsUpTo([timestamp : ProvenanceTimestamps,
              nativeTransfers : {None, Some(<<>>)}
                  \cup { Some(<<t>>) : t \in FundingTransfers(w)
                                        \cup {Transfer(WalletB, w, DUST_THRESHOLD)} }],
             MaxTx)

\* one transaction of up to MaxTransfers transfers
OneTxShapes(w) ==
    { <<[timestamp |-> ts, nativeTransfers |-> Some(l)]>> :
        ts \in ProvenanceTimestamps,
        l \in SeqsUpTo(FundingTransfers(w) \cup OtherTransfers(w), MaxTransfers) }

ProvenanceIndexerResponses(w) ==
    { IndexerFailure(o) : o \in {"network", "status", "badjson"} }
        \cup { IndexerBody(k, <<>>) : k \in {"null", "object", "nullElems"} }
        \cup { IndexerBody("array", IndexedTxs(shapes)) :
                 shapes \in ManyTxShapes(w) \cup OneTxShapes(w) }

Ix(type, program, destination, source) ==
    [type |-> type, program |-> program, destination |-> destination, source |-> source]

Instructions(w) ==
    { Ix("transfer", "system", w, WalletB),
      Ix("transfer", "system", w, WalletC),
      Ix("transfer", "system", w, w),
      Ix("transfer", "system", w, Null),
      Ix("transfer", "system", OtherWallet, WalletB),
      Ix("createAccount", "system", w, WalletB),
      Ix("transfer", "spl-token", w, WalletB) }

\* top-level instructions that leave fundedBy unset
UnfundedTop(w) == { Some(<<>>), Some(<<Ix("transfer", "system", w, Null)>>) }

BriefGroups(w) ==
    { [instructions |-> None] }
        \cup { [instructions |-> Some(<<ix>>)] : ix \in Instructions(w) }

\* a transaction as getTransaction gives it: transaction.message.instructions,
\* meta.innerInstructions, and the account keys with meta.preBalances and
\* meta.postBalances
ProvenanceTx(instructions, innerInstructions, balances) ==
    [instructions |-> instructions, innerInstructions |-> innerInstructions,
     balances |-> balances]

Balances(accountKeys, preBalances, postBalances) ==
    Some([accountKeys |-> accountKeys, preBalances |-> preBalances,
          postBalances |-> postBalances])

LAMPORTS_PER_SOL == 1000 * 1000 * 1000
SIGNATURE_FEE == 5 * 1000

\* transactions without any transfer instruction, in which the wallet
\* received one SOL: paid by WalletB, by WalletB or WalletC, by nobody listed
BalanceTxs(w) ==
    { Some(ProvenanceTx(Some(<<>>), None,
                        Balances(<<WalletB, WalletC, w>>,
                                 <<2 * LAMPORTS_PER_SOL, 2 * LAMPORTS_PER_SOL, 0>>,
                                 <<2 * LAMPORTS_PER_SOL - b, 2 * LAMPORTS_PER_SOL - c,
                                   LAMPORTS_PER_SOL>>))) :
        b \in {0, LAMPORTS_PER_SOL + SIGNATURE_FEE},
        c \in {0, LAMPORTS_PER_SOL} }

\* what getTransaction answers for the oldest signature
ProvenanceTxs(w) ==
    { None, Some(ProvenanceTx(None, None, None)) }
        \cup { Some(ProvenanceTx(Some(l), None, None)) :
                 l \in SeqsUpTo(Instructions(w), MaxIx) }
        \cup { Some(ProvenanceTx(top, Some(gs), None)) :
                 top \in UnfundedTop(w), gs \in SeqsUpTo(BriefGroups(w), MaxGroups) }
        \cup { Some(ProvenanceTx(top, Some(<<[instructions |-> Some(l)]>>), None)) :
                 top \in UnfundedTop(w), l \in SeqsUpTo(Instructions(w), MaxIx) }
        \cup BalanceTxs(w)

SampleProvenanceTxs(w) ==
    { None,
      Some(ProvenanceTx(Some(<<Ix("transfer", "system", w, WalletB)>>), None, None)) }

Histories ==
    (0..MaxHistory)
        \cup { SIGNATURE_LIMIT_PROVENANCE - 1, SIGNATURE_LIMIT_PROVENANCE,
               SIGNATURE_LIMIT_PROVENANCE + 1,
               (PAGINATION_CAP + 1) * SIGNATURE_LIMIT_PROVENANCE }

\* Date.now(): before the first timestamp the backends report, within a day
\* after it, and days after it
Nows == { MS_PER_DAY \div 2,
          MS_PER_DAY + MS_PER_DAY \div 2,
          3 * MS_PER_DAY + MS_PER_DAY \div 2 }

InitProvenance ==
    /\ now \in Nows
    /\ \/ /\ heliusKey = FALSE
          /\ chain \in [history : Histories, blockTimes : BOOLEAN]
       \/ /\ heliusKey = TRUE
          /\ chain \in [history : {0, 1, SIGNATURE_LIMIT_PROVENANCE}, blockTimes : {TRUE}]
    /\ args \in { [walletAddress |-> w] : w \in Wallets }
    /\ pc = "start"
    /\ locals = [response |-> None, oldestSig |-> None, deployerAge |-> None,
                 count |-> 0, tx |-> None]
    /\ net = <<>>
    /\ ret = None
    /\ threw = FALSE

IsProvenanceCall == "walletAddress" \in DOMAIN args

\* getDeployerInfo with an indexer: the request at solscan.js:206 and what
\* follows up to the return or to the first RPC request
GetDeployerInfo_Indexer ==
    /\ pc = "start"
    /\ IsProvenanceCall
    /\ HELIUS_ENHANCED_API(heliusKey) # Null
    /\ \E resp \in ProvenanceIndexerResponses(args.walletAddress) :
         LET h == getDeployerInfoViaHelius(args.walletAddress, resp, now)
         IN  /\ net' = Append(net, IndexerRequest(heliusKey, args.walletAddress,
                                                  HELIUS_LIMIT_PROVENANCE, resp))
             /\ locals' = [locals EXCEPT !.response = Some(resp)]
             /\ IF returnsHeliusResult(h)
                THEN pc' = "done" /\ ret' = h.result
                ELSE pc' = "viaRPC:getSignaturesForAddress" /\ ret' = ret
    /\ UNCHANGED <<heliusKey, now, chain, args, threw>>

\* getDeployerInfoViaRPC: the signature request, reached from getDeployerInfo
\* without an indexer or after the indexer gave nothing
ProvenanceViaRPC_Signatures ==
    /\ \/ pc = "viaRPC:getSignaturesForAddress"
       \/ pc = "start" /\ HELIUS_ENHANCED_API(heliusKey) = Null
    /\ IsProvenanceCall
    /\ \E outs \in OutcomeLists(RPC_ENDPOINTS(heliusKey)) :
         LET f == fetchSignatures(RPC_ENDPOINTS(heliusKey), outs, chain, args.walletAddress)
             s == provenanceSignatures(f.r, now)
         IN  /\ net' = net \o f.requests
             /\ locals' = [locals EXCEPT !.oldestSig = s.oldestSig,
                                         !.deployerAge = s.deployerAge,
                                         !.count = s.count]
             /\ threw' = s.threw
             /\ IF s.returns
                THEN pc' = "done" /\ ret' = s.ret
                ELSE pc' = "viaRPC:getTransaction" /\ ret' = ret
    /\ UNCHANGED <<heliusKey, now, chain, args>>

\* getDeployerInfoViaRPC: rpcCall('getTransaction', [oldestSig.signature, ...])
\* and the instruction scan
ProvenanceViaRPC_Transaction ==
    /\ pc = "viaRPC:getTransaction"
    /\ IsProvenanceCall
    /\ \E outs \in OutcomeLists(RPC_ENDPOINTS(heliusKey)),
          tx \in IF chain.history = 1 /\ chain.blockTimes /\ locals.response = None
                 THEN ProvenanceTxs(args.walletAddress)
                 ELSE SampleProvenanceTxs(args.walletAddress) :
         LET r == rpcCall(RPC_ENDPOINTS(heliusKey), Responses(outs, tx))
         IN  /\ net' = net \o RpcRequests(r, "getTransaction",
                                          <<locals.oldestSig[1].signature>>)
             /\ locals' = [locals EXCEPT !.tx = r.result]
             /\ ret' = provenanceTransaction(args.walletAddress, locals.oldestSig[1],
                                             locals.deployerAge, r)
             /\ pc' = "done"
    /\ UNCHANGED <<heliusKey, now, chain, args, threw>>

NextProvenance ==
    \/ GetDeployerInfo_Indexer
    \/ ProvenanceViaRPC_Signatures
    \/ ProvenanceViaRPC_Transaction

SpecProvenance == InitProvenance /\ [][NextProvenance]_vars

----------------------------------------------------------------------------
\* Claims about the provenance analyzer

ProvenanceDone == pc = "done" /\ IsProvenanceCall

RecordFields == {"deployerAge", "fundedBy", "fundingTx"}

\* C7: getDeployerInfo never throws and returns a record of exactly the three
\* fields age, fundedBy and fundingTx, whatever the indexer and the RPC
\* endpoints answer; when no request is answered the three are null.
C7_ProvenanceTotality ==
    ProvenanceDone =>
        /\ ~threw
        /\ DOMAIN ret = RecordFields
        /\ (NoRequestAnswered => ret = NullRecord)

\* the indexer and both RPC endpoints were asked and all failed
C7_Witness ==
    /\ ProvenanceDone
    /\ NoRequestAnswered
    /\ Len(net) = 3
    /\ ret = NullRecord
    /\ ~threw

\* the node has more signatures than the cap covers: every batch asked for
\* within the cap is full
FullBatches ==
    /\ IsProvenanceCall
    /\ chain.history > PAGINATION_CAP * SIGNATURE_LIMIT_PROVENANCE

\* logical getSignaturesForAddress calls: each starts at the first endpoint
SignatureCalls ==
    Cardinality({ j \in 1..Len(net) :
                    /\ net[j].method = "getSignaturesForAddress"
                    /\ net[j].url = RPC_ENDPOINTS(heliusKey)[1] })

\* C9: against nodes that always return full batches of 1000 signatures,
\* getDeployerInfo issues at most 20 getSignaturesForAddress calls and never
\* stalls: until it has returned a record its next step can be taken.
C9_PaginationBound ==
    FullBatches =>
        /\ SignatureCalls <= PAGINATION_CAP
        /\ IF pc = "done"
           THEN ~threw /\ DOMAIN ret = RecordFields
           ELSE ENABLED NextProvenance

\* a full batch was received and a record returned
C9_Witness ==
    /\ ProvenanceDone
    /\ FullBatches
    /\ locals.count = SIGNATURE_LIMIT_PROVENANCE
    /\ SignatureCalls = 1
    /\ DOMAIN ret = RecordFields
    /\ ret.fundingTx = Sig(chain.history - SIGNATURE_LIMIT_PROVENANCE + 1)

\* the record came from the indexer
FromIndexer == ProvenanceDone /\ locals.response # None /\ Len(net) = 1

\* transfer j of transaction i of the indexer's answer funds the wallet
Funds(txs, i, j, w) ==
    /\ txs[i].nativeTransfers # None
    /\ j \in 1..Len(txs[i].nativeTransfers[1])
    /\ LET t == txs[i].nativeTransfers[1][j]
       IN  /\ t.toUserAccount = w
           /\ TruthyStr(t.fromUserAccount)
           /\ t.fromUserAccount # w
           /\ t.amount > DUST_THRESHOLD

Positions(txs) ==
    { p \in (1..Len(txs)) \X (1..MaxTransfers + 1) : Funds(txs, p[1], p[2], args.walletAddress) }

\* C10: on the indexer path fundedBy is the source of the first transfer to
\* the wallet, from another account and above 10,000 lamports, in ascending
\* timestamp order and list order, and fundingTx is the signature of its
\* transaction; no other transfer is ever selected.
C10_FundingSource ==
    FromIndexer =>
        LET txs == locals.response[1].body.txs
            w   == args.walletAddress
        IN  IF Positions(txs) = {}
            THEN ret.fundedBy = Null
            ELSE \E p \in Positions(txs) :
                    /\ ret.fundedBy = txs[p[1]].nativeTransfers[1][p[2]].fromUserAccount
                    /\ ret.fundingTx = txs[p[1]].signature
                    /\ \A q \in Positions(txs) :
                          /\ ~(OrZero(txs[q[1]].timestamp) < OrZero(txs[p[1]].timestamp))
                          /\ ~(q[1] = p[1] /\ q[2] < p[2])

\* the older of two funding transactions came second in the answer
C10_Witness ==
    /\ FromIndexer
    /\ LET txs == locals.response[1].body.txs
       IN  /\ Len(txs) = 2
           /\ txs[1].timestamp = Some(2 * SECONDS_PER_DAY)
           /\ txs[2].timestamp = Some(SECONDS_PER_DAY)
           /\ Funds(txs, 1, 1, args.walletAddress)
           /\ Funds(txs, 2, 1, args.walletAddress)
           /\ txs[1].nativeTransfers[1][1].fromUserAccount = WalletB
           /\ txs[2].nativeTransfers[1][1].fromUserAccount = WalletC
    /\ ret.fundedBy = WalletC
    /\ ret.fundingTx = Sig(2)

\* the record getDeployerInfoViaHelius derives from the indexer's answer
IndexerRecord == getDeployerInfoViaHelius(args.walletAddress, locals.response[1], now)

RpcCalled == \E j \in 1..Len(net) : net[j].method # "GET"

\* the indexer answered with a transaction list
IndexerSucceeded ==
    /\ HELIUS_ENHANCED_API(heliusKey) # Null
    /\ locals.response # None
    /\ locals.response[1].outcome = "ok"
    /\ locals.response[1].body.kind = "array"

\* C11 as stated: RPC requests are made only when the indexer is not
\* configured or its request failed; whenever the indexer request succeeded
\* the record returned is the indexer's and no RPC request is made.
C11_Original ==
    (ProvenanceDone /\ IndexerSucceeded) =>
        (~RpcCalled /\ ret = IndexerRecord.result)

\* C11 amended: the indexer's record is returned, with no RPC request, exactly
\* when the indexer is configured, its answer could be processed and the
\* record holds a funder or a non-zero age; in every other case RPC is called.
C11_IndexerExclusive ==
    ProvenanceDone =>
        IF /\ HELIUS_ENHANCED_API(heliusKey) # Null
           /\ ~IndexerRecord.threw
           /\ \/ TruthyStr(IndexerRecord.result.fundedBy)
              \/ /\ IndexerRecord.result.deployerAge # None
                 /\ IndexerRecord.result.deployerAge[1] # 0
        THEN ~RpcCalled /\ Len(net) = 1 /\ ret = IndexerRecord.result
        ELSE RpcCalled

\* the indexer reported a wallet less than a day old and no funder: RPC was
\* called although the indexer request had succeeded
C11_Witness ==
    /\ ProvenanceDone
    /\ IndexerSucceeded
    /\ Len(locals.response[1].body.txs) > 0
    /\ IndexerRecord.result.deployerAge = Some(0)
    /\ IndexerRecord.result.fundedBy = Null
    /\ RpcCalled

\* the RPC path fetched and received the oldest transaction
TransactionFetched ==
    /\ ProvenanceDone
    /\ RpcCalled
    /\ net[Len(net)].method = "getTransaction"
    /\ net[Len(net)].ok
    /\ locals.tx # None

\* the lamports account k gained in the transaction (lost, if negative)
Gain(b, k) == b.postBalances[k] - b.preBalances[k]

\* account k lost what the wallet gained, up to the fee
PaidFor(b, k, w) ==
    \E i \in 1..Len(b.accountKeys) :
        /\ b.accountKeys[i] = w
        /\ Gain(b, i) > 0
        /\ b.accountKeys[k] # w
        /\ 0 - Gain(b, k) >= Gain(b, i)
        /\ 0 - Gain(b, k) <= Gain(b, i) + SIGNATURE_FEE

\* C19: when the oldest transaction holds no transfer instruction to the
\* wallet, top-level or inner, and the wallet's balance rose by d while
\* another account's fell by about d, getDeployerInfo returns the first such
\* account in account-key order as fundedBy.
C19_BalanceDelta ==
    (/\ TransactionFetched
     /\ TruthyStr(args.walletAddress)
     /\ rpcFundedBy(locals.tx[1], args.walletAddress) = Null
     /\ locals.tx[1].balances # None
     /\ \E k \in 1..Len(locals.tx[1].balances[1].accountKeys) :
           PaidFor(locals.tx[1].balances[1], k, args.walletAddress))
        => LET b == locals.tx[1].balances[1]
               k == CHOOSE k \in 1..Len(b.accountKeys) :
                       /\ PaidFor(b, k, args.walletAddress)
                       /\ \A h \in 1..(k - 1) : ~PaidFor(b, h, args.walletAddress)
           IN  ret.fundedBy = b.accountKeys[k]

\* C13: the age in every record getDeployerInfo returns, from the indexer or
\* from RPC, is null or a whole number of days that is not negative.
C13_AgeNonNegative ==
    ProvenanceDone =>
        (ret.deployerAge = None \/ (ret.deployerAge[1] \in Int /\ ret.deployerAge[1] >= 0))

----------------------------------------------------------------------------
\* The age computation alone (solscan.js:228 and 277), at two call times

MaxDays == 2

\* instants around the day boundaries, in seconds
Instants ==
    { d * SECONDS_PER_DAY + e : d \in 0..MaxDays, e \in {0, 1} }
        \cup { d * SECONDS_PER_DAY - 1 : d \in 1..MaxDays }

InitAge ==
    /\ args \in { a \in [timestamp : Instants, T1 : Instants, T2 : Instants] : a.T1 < a.T2 }
    /\ pc = "start"
    /\ heliusKey = FALSE
    /\ now = 0
    /\ chain = [history |-> 0, blockTimes |-> TRUE]
    /\ locals = [path |-> Null]
    /\ net = <<>>
    /\ ret = None
    /\ threw = FALSE

IsAgeCall == "timestamp" \in DOMAIN args

\* the age of getDeployerInfoViaHelius at Date.now() = T1 and at T2 seconds
AgeViaHelius ==
    /\ pc = "start"
    /\ IsAgeCall
    /\ ret' = [at1 |-> heliusAge(args.T1 * 1000, args.timestamp),
               at2 |-> heliusAge(args.T2 * 1000, args.timestamp)]
    /\ locals' = [locals EXCEPT !.path = "indexer"]
    /\ pc' = "done"
    /\ UNCHANGED <<heliusKey, now, chain, args, net, threw>>

\* the age of getDeployerInfoViaRPC at Date.now() = T1 and at T2 seconds
AgeViaRPC ==
    /\ pc = "start"
    /\ IsAgeCall
    /\ ret' = [at1 |-> rpcAge(args.T1 * 1000, args.timestamp),
               at2 |-> rpcAge(args.T2 * 1000, args.timestamp)]
    /\ locals' = [locals EXCEPT !.path = "rpc"]
    /\ pc' = "done"
    /\ UNCHANGED <<heliusKey, now, chain, args, net, threw>>

NextAge == AgeViaHelius \/ AgeViaRPC

SpecAge == InitAge /\ [][NextAge]_vars

AgeDone == pc = "done" /\ IsAgeCall

\* C12 as stated: the age at T2 is at least the age at T1 and exceeds it by
\* exactly floor((T2 - T1) / 86400).
C12_Original ==
    AgeDone =>
        /\ ret.at2 >= ret.at1
        /\ ret.at2 - ret.at1 = (args.T2 - args.T1) \div SECONDS_PER_DAY

\* C12 amended: the age at T2 is at least the age at T1 and exceeds it by
\* floor((T2 - T1) / 86400) or by one more than that.
C12_AgeMonotone ==
    AgeDone =>
        /\ ret.at2 >= ret.at1
        /\ ret.at2 - ret.at1 \in
              { (args.T2 - args.T1) \div SECONDS_PER_DAY,
                (args.T2 - args.T1) \div SECONDS_PER_DAY + 1 }

\* two calls two seconds apart, on either side of the wallet's first birthday
\* in days: the ages differ by one
C12_Witness ==
    /\ AgeDone
    /\ args = [timestamp |-> 0, T1 |-> SECONDS_PER_DAY - 1, T2 |-> SECONDS_PER_DAY + 1]
    /\ ret = [at1 |-> 0, at2 |-> 1]

----------------------------------------------------------------------------
\* Deployer token history (solscan.js:335-391)

HELIUS_LIMIT_TOKENS == 100

UpperCase == "ABCDEFGHIJKLMNOPQRSTUVWXYZ"
LowerCase == "abcdefghijklmnopqrstuvwxyz"

\* the lower-case form of one character
lowerChar(c) ==
    IF \E i \in 1..Len(UpperCase) : SubSeq(UpperCase, i, i) = c
    THEN LET i == CHOOSE i \in 1..Len(UpperCase) : SubSeq(UpperCase, i, i) = c
         IN  SubSeq(LowerCase, i, i)
    ELSE c

\* the lower-case form of s from its i-th character on
RECURSIVE lowerFrom(_, _)
lowerFrom(s, i) ==
    IF i > Len(s) THEN ""
    ELSE CHOOSE lower \in { lowerChar(c) \o lowerFrom(t, j) :
                               c \in {SubSeq(s, i, i)}, t \in {s}, j \in {i + 1} } : TRUE

\* String.prototype.toLowerCase on the characters addresses are written in
toLowerCase(s) == lowerFrom(s, 1)

Pad2(n) == IF n < 10 THEN "0" \o ToString(n) ELSE ToString(n)

\* new Date(timestamp * 1000).toISOString(), for instants of January 1970
toISOString(timestamp) ==
    LET day  == timestamp \div SECONDS_PER_DAY + 1
        secs == timestamp % SECONDS_PER_DAY
    IN  "1970-01-" \o Pad2(day) \o "T" \o Pad2(secs \div 3600) \o ":"
            \o Pad2((secs % 3600) \div 60) \o ":" \o Pad2(secs % 60) \o ".000Z"

\* solscan.js:369: transfer.mint && transfer.mint.toLowerCase().endsWith('pump')
isPumpMint(mint) == TruthyStr(mint) /\ endsWith(toLowerCase(mint), "pump")

\* the test of solscan.js:371 on the mint as written instead of in lower case
isNewMint_CaseSensitive(mint, excludeLower, seenMints) ==
    mint # excludeLower /\ mint \notin seenMints

\* solscan.js:371: mintLower !== excludeLower && !seenMints.has(mintLower)
isNewMint(mint, excludeLower, seenMints) ==
    toLowerCase(mint) # excludeLower /\ toLowerCase(mint) \notin seenMints

\* solscan.js:368-380, the loop over one transaction's tokenTransfers;
\* acc is [createdTokens, seenMints]
RECURSIVE scanTransfers(_, _, _, _)
scanTransfers(tokenTransfers, tx, excludeLower, acc) ==
    IF tokenTransfers = <<>> THEN acc
    ELSE LET mint == tokenTransfers[1].mint
             next ==
                 IF isPumpMint(mint) /\ isNewMint(mint, excludeLower, acc.seenMints)
                 THEN [createdTokens |->
                          Append(acc.createdTokens,
                                 [mint |-> mint,
                                  createdAt |-> IF TruthyNum(tx.timestamp)
                                                THEN toISOString(tx.timestamp[1])
                                                ELSE Null]),
                       seenMints |-> acc.seenMints \cup {toLowerCase(mint)}]
                 ELSE acc
         IN  CHOOSE result \in { scanTransfers(Tail(tokenTransfers), tx, excludeLower, n) :
                                    n \in {next} } : TRUE

\* solscan.js:360-383, the loop over the transactions
RECURSIVE scanTransactions(_, _, _, _)
scanTransactions(transactions, deployerAddress, excludeLower, acc) ==
    IF transactions = <<>> THEN acc
    ELSE LET tx   == transactions[1]
             next ==
                 IF tx.feePayer # deployerAddress THEN acc
                 ELSE IF tx.source = "PUMP_FUN" /\ tx.type = "CREATE"
                         /\ tx.tokenTransfers # None
                 THEN scanTransfers(tx.tokenTransfers[1], tx, excludeLower, acc)
                 ELSE acc
         IN  CHOOSE result \in { scanTransactions(Tail(transactions), deployerAddress,
                                                     excludeLower, n) : n \in {next} } : TRUE

\* the failures of the request and of the scan left uncaught
createdTokens_Uncaught(deployerAddress, excludeToken, resp) ==
    [threw |-> resp.outcome \in {"network", "badjson"} \/ resp.body.kind # "array",
     result |-> <<>>]

\* getDeployerCreatedTokens after its guard (solscan.js:342-390), given the
\* indexer's answer: [threw, result]
createdTokens(deployerAddress, excludeToken, resp) ==
    IF resp.outcome # "ok" THEN [threw |-> FALSE, result |-> <<>>]
    ELSE IF resp.body.kind # "array" THEN [threw |-> FALSE, result |-> <<>>]
    ELSE LET excludeLower == IF excludeToken = Null THEN Null
                             ELSE toLowerCase(excludeToken)
         IN  [threw |-> FALSE,
              result |-> CHOOSE list \in
                            { scanTransactions(resp.body.txs, deployerAddress, lower,
                                               [createdTokens |-> <<>>, seenMints |-> {}])
                                  .createdTokens : lower \in {excludeLower} } : TRUE]

MaxMints == 2

\* PumpMint in another spelling, and a second mint of the platform
PumpMintUpper == "2EXAMY7T3KVKHFV6AJ6UWE3EH8CUREFCTKS1MFKZPUMP"
OtherPumpMint == "9bQ1ZrT6uDk3nqYhVwXcE5sLmA8oPfGjH2yK4tNRpump"

TokenMintValues == {Null, "", PumpMint, PumpMintUpper, OtherPumpMint, PlainMint}

TokenTransfer(mint) == [mint |-> mint]

CreateTx(feePayer, timestamp, mints) ==
    [feePayer |-> feePayer, source |-> "PUMP_FUN", type |-> "CREATE",
     timestamp |-> timestamp,
     tokenTransfers |-> Some([i \in 1..Len(mints) |-> TokenTransfer(mints[i])])]

TokenTimestamps == {None, Some(0), Some(SECONDS_PER_DAY + 3661)}

\* one creation by the deployer with up to MaxMints transfers
OneCreateTx(d) ==
    { <<CreateTx(d, ts, mints)>> :
        ts \in TokenTimestamps, mints \in SeqsUpTo(TokenMintValues, MaxMints) }

\* transactions of one transfer each: creations by the deployer, and
\* transactions of another fee payer, source or type, or without transfers
BriefTokenTxs(d) ==
    { CreateTx(d, Some(SECONDS_PER_DAY), <<m>>) :
        m \in {PumpMint, PumpMintUpper, OtherPumpMint} }
        \cup { CreateTx(WalletB, Some(SECONDS_PER_DAY), <<OtherPumpMint>>),
               [CreateTx(d, Some(SECONDS_PER_DAY), <<OtherPumpMint>>) EXCEPT !.source = "RAYDIUM"],
               [CreateTx(d, Some(SECONDS_PER_DAY), <<OtherPumpMint>>) EXCEPT !.type = "SWAP"],
               [CreateTx(d, Some(SECONDS_PER_DAY), <<>>) EXCEPT !.tokenTransfers = None] }

TokenIndexerResponses(d) ==
    { IndexerFailure(o) : o \in {"network", "status", "badjson"} }
        \cup { IndexerBody(k, <<>>) : k \in {"null", "object", "nullElems"} }
        \cup { IndexerBody("array", txs) :
                 txs \in OneCreateTx(d) \cup SeqsUpTo(BriefTokenTxs(d), MaxTx) }

InitTokens ==
    /\ heliusKey \in BOOLEAN
    /\ args \in [deployerAddress : {Null, "", WalletA},
                 excludeToken : {Null, PumpMint, PumpMintUpper}]
    /\ pc = "start"
    /\ now = 0
    /\ chain = [history |-> 0, blockTimes |-> TRUE]
    /\ locals = [response |-> None, again |-> None]
    /\ net = <<>>
    /\ ret = None
    /\ threw = FALSE

IsTokensCall == "excludeToken" \in DOMAIN args

\* solscan.js:336: !HELIUS_ENHANCED_API || !deployerAddress
tokensGuard == HELIUS_ENHANCED_API(heliusKey) = Null \/ ~TruthyStr(args.deployerAddress)

\* getDeployerCreatedTokens returning at its guard (solscan.js:336-338)
GetDeployerCreatedTokens_Guard ==
    /\ pc = "start"
    /\ IsTokensCall
    /\ tokensGuard
    /\ ret' = <<>>
    /\ pc' = "done"
    /\ UNCHANGED <<heliusKey, now, chain, args, locals, net, threw>>

\* getDeployerCreatedTokens: the request at solscan.js:345 and the scan
GetDeployerCreatedTokens_Fetch ==
    /\ pc = "start"
    /\ IsTokensCall
    /\ ~tokensGuard
    /\ \E resp \in TokenIndexerResponses(args.deployerAddress) :
         LET t == createdTokens(args.deployerAddress, args.excludeToken, resp)
         IN  /\ net' = Append(net, IndexerRequest(heliusKey, args.deployerAddress,
                                                  HELIUS_LIMIT_TOKENS, resp))
             /\ locals' = [locals EXCEPT !.response = Some(resp)]
             /\ ret' = t.result
             /\ threw' = t.threw
    /\ pc' = "done"
    /\ UNCHANGED <<heliusKey, now, chain, args>>

\* a second call with the same arguments, answered with the same data
GetDeployerCreatedTokens_Again ==
    /\ pc = "done"
    /\ IsTokensCall
    /\ locals.response # None
    /\ locals.again = None
    /\ LET t == createdTokens(args.deployerAddress, args.excludeToken, locals.response[1])
       IN  /\ net' = Append(net, IndexerRequest(heliusKey, args.deployerAddress,
                                                HELIUS_LIMIT_TOKENS, locals.response[1]))
           /\ locals' = [locals EXCEPT !.again = Some(t.result)]
           /\ threw' = (threw \/ t.threw)
    /\ UNCHANGED <<heliusKey, now, chain, args, pc, ret>>

NextTokens ==
    \/ GetDeployerCreatedTokens_Guard
    \/ GetDeployerCreatedTokens_Fetch
    \/ GetDeployerCreatedTokens_Again

SpecTokens == InitTokens /\ [][NextTokens]_vars

TokensDone == pc = "done" /\ IsTokensCall

\* equality of two mints whatever the case of their letters
SameMint(a, b) == toLowerCase(a) = toLowerCase(b)

TokenSourceFailed ==
    \/ tokensGuard
    \/ locals.response[1].outcome # "ok"
    \/ locals.response[1].body.kind # "array"

\* C15: getDeployerCreatedTokens never throws, and returns the empty list
\* when the indexer is not configured, the deployer address is empty, or the
\* request fails, has a non-success status or an unusable body.
C15_TokensTotal ==
    TokensDone => (~threw /\ (TokenSourceFailed => ret = <<>>))

\* the indexer was asked and its body was not a list
C15_Witness ==
    /\ TokensDone
    /\ Len(net) >= 1
    /\ locals.response[1].outcome = "ok"
    /\ locals.response[1].body.kind = "object"
    /\ ret = <<>>
    /\ ~threw

----------------------------------------------------------------------------
\* The aggregator: checkToken (App.jsx:65-272)

\* the test of the length alone
isValidSolanaAddress_LengthOnly(address) ==
    /\ TruthyStr(address)
    /\ Len(address) >= ADDRESS_LEN_MIN
    /\ Len(address) <= ADDRESS_LEN_MAX

\* isValidSolanaAddress (utils/storage): a string of 32 to 44 base58 characters
isValidSolanaAddress(address) ==
    /\ TruthyStr(address)
    /\ Len(address) >= ADDRESS_LEN_MIN
    /\ Len(address) <= ADDRESS_LEN_MAX
    /\ IsBase58(address)

\* the three sub-lookups, in the order of the array given to Promise.all
Lookups == <<"getDeployerInfo", "getDeployerWalletInfo", "getFairScore">>

LookupNames == { Lookups[i] : i \in 1..Len(Lookups) }

Event(kind, name) == kind \o ":" \o name

\* a join on the first lookup to settle
joinReady_Any(lookups) == \E l \in LookupNames : lookups[l] = "settled"

\* Promise.all (App.jsx:145): every lookup has settled; none of them rejects
joinReady(lookups) == \A l \in LookupNames : lookups[l] = "settled"

\* the position of an event in the history of the check, 0 if it has not happened
Pos(e) ==
    IF \E i \in 1..Len(locals.events) : locals.events[i] = e
    THEN CHOOSE i \in 1..Len(locals.events) : locals.events[i] = e
    ELSE 0

\* cleanTwitterHandle (utils/storage) on handles without blanks or profile
\* URLs: the leading @ is removed, and anything but 1 to 15 characters of
\* [a-zA-Z0-9_] gives null
HandleChars == "abcdefghijklmnopqrstuvwxyzABCDEFGHIJKLMNOPQRSTUVWXYZ0123456789_"

HANDLE_LEN_MAX == 15

cleanTwitterHandle(handle) ==
    IF ~TruthyStr(handle) THEN Null
    ELSE LET cleaned == IF SubSeq(handle, 1, 1) = "@"
                        THEN SubSeq(handle, 2, Len(handle)) ELSE handle
         IN  IF /\ Len(cleaned) >= 1
                /\ Len(cleaned) <= HANDLE_LEN_MAX
                /\ \A i \in 1..Len(cleaned) :
                      \E j \in 1..Len(HandleChars) :
                         SubSeq(HandleChars, j, j) = SubSeq(cleaned, i, i)
             THEN cleaned
             ELSE Null

\* cleanRoast (App.jsx:30-33): quotes at both ends are removed
RECURSIVE cleanRoast(_)
cleanRoast(roast) ==
    IF ~TruthyStr(roast) THEN ""
    ELSE IF SubSeq(roast, 1, 1) \in {"\"", "'"}
    THEN cleanRoast(SubSeq(roast, 2, Len(roast)))
    ELSE IF SubSeq(roast, Len(roast), Len(roast)) \in {"\"", "'"}
    THEN cleanRoast(SubSeq(roast, 1, Len(roast) - 1))
    ELSE roast

\* the answers of a provider asked over HTTP: the request fails, the status
\* is no success, the body cannot be used, or the answer is good
ProviderOutcomes == {"network", "status", "malformed", "ok"}

\* getTokenReport (services/rugcheck): null on a failed request or status;
\* response.json() is returned without await, so its rejection is not caught
getTokenReport(outcome, body) ==
    IF outcome \in {"network", "status"} THEN [outcome |-> "null", creator |-> Null,
                                                creatorTokens |-> None]
    ELSE IF outcome = "malformed" THEN [outcome |-> "rejected", creator |-> Null,
                                        creatorTokens |-> None]
    ELSE body

\* getFairScore without its fallback to mock data
getFairScore_NoMock(walletAddress, outcome) ==
    [threw |-> outcome # "ok", source |-> "api"]

\* getFairScore (services/fairscale): every failure is caught and answered
\* with mock data computed from the wallet address
getFairScore(walletAddress, outcome) ==
    IF outcome = "ok" THEN [threw |-> FALSE, source |-> "api"]
    ELSE [threw |-> ~TruthyStr(walletAddress), source |-> "mock"]

FALLBACK_ROAST == "Aggressively mid. The human equivalent of a beige wall."

\* generateRoast (grok.js:12-62): the model's sentence, or a fallback roast
generateRoast(outcome) ==
    IF outcome = "ok" THEN "\"ngmi ser\"" ELSE FALLBACK_ROAST

\* App.jsx:164-172: the funder's tokens are added unless their mint is
\* among the deployer's
RECURSIVE mergeTokens(_, _)
mergeTokens(deployerTokens, funderTokens) ==
    IF funderTokens = <<>> THEN deployerTokens
    ELSE LET merged == mergeTokens(deployerTokens,
                                   SubSeq(funderTokens, 1, Len(funderTokens) - 1))
             token  == funderTokens[Len(funderTokens)]
         IN  IF \E i \in 1..Len(deployerTokens) : deployerTokens[i].mint = token.mint
             THEN merged
             ELSE Append(merged, token)

\* App.jsx:97: tokenReport.creatorTokens || []
rugcheckCreatorTokens(report) ==
    IF report.creatorTokens = None THEN <<>> ELSE report.creatorTokens[1]

\* the scan made whatever the report lists
scansTokens_Always(report) == TRUE

\* App.jsx:155: the on-chain scan is made
scansTokens(report) == Len(rugcheckCreatorTokens(report)) = 0

----------------------------------------------------------------------------
\* Inputs of the aggregator

\* addresses typed into the form: empty, too short, with a character that is
\* not base58, of 31 and of 45 characters, and two valid ones
TokenInputs ==
    {"", "abc", "0eXamy7t3kvKhfV6aJ6Uwe3eh8cuREFcTKs1mFKZpump",
     SubSeq(PlainMint, 1, ADDRESS_LEN_MIN - 1), PumpMint \o "a", PumpMint, PlainMint}

HandleInputs == {"", "@dev_1"}

\* an entry of the recent-checks list, as far as handleTokenClick reads it
RecentEntries == [tokenAddress : {PumpMint, PlainMint}, twitterHandle : {Null, "dev_1"}]

CreatorToken(mint) == [mint |-> mint, createdAt |-> toISOString(SECONDS_PER_DAY)]

\* the bodies of a token report for a token: without creator, and with a
\* creator and no creatorTokens, an empty list, a list of another token, and
\* a list of every token of the creator
TokenReportBodies(token) ==
    { [outcome |-> "ok", creator |-> c, creatorTokens |-> None] : c \in {Null, WalletA} }
        \cup { [outcome |-> "ok", creator |-> WalletA, creatorTokens |-> Some(l)] :
                 l \in { <<>>, <<CreatorToken(OtherPumpMint)>>,
                         <<CreatorToken(token), CreatorToken(OtherPumpMint)>> } }

\* what getDeployerInfo can return for a wallet: nothing known, a funder,
\* and the wallet as its own funder
DeployerInfos(wallet) ==
    { NullRecord,
      [deployerAge |-> Some(1), fundedBy |-> WalletC, fundingTx |-> Sig(1)],
      [deployerAge |-> Some(1), fundedBy |-> wallet, fundingTx |-> Sig(1)] }

\* the indexer's answers to a token scan of a wallet during the check of a
\* token: failures, and creations of the token in two spellings and of
\* another token
ScanResponses(wallet, token) ==
    { IndexerFailure("network"), IndexerBody("object", <<>>), IndexerBody("array", <<>>),
      IndexerBody("array", <<CreateTx(wallet, Some(SECONDS_PER_DAY),
                                      <<token, toLowerCase(token), OtherPumpMint>>)>>) }

\* the previous result shown on the results screen
PreviousResult(token) ==
    [tokenAddress |-> token, deployerWallet |-> WalletA, twitterHandle |-> Null,
     score |-> "api", roast |-> FALLBACK_ROAST, tokensLaunched |-> 1,
     fundedBy |-> Null, fundingTx |-> Null, creatorTokens |-> <<>>]

Request(url, method, params) == [url |-> url, method |-> method, params |-> params]

\* the check whose providers are tried with all their answers in every
\* order; the other checks get the answers that decide the path taken
Detailed == args.entry = None /\ args.tokenCA = PumpMint /\ args.devTwitter = ""

\* the state of a render before a check
FreshState(tokenCA, devTwitter, screen) ==
    [screen |-> screen, error |-> Null, report |-> None,
     input |-> [tokenCA |-> tokenCA, devTwitter |-> devTwitter],
     checked |-> Null, handle |-> Null, deployerWallet |-> Null,
     deployerInfo |-> NullRecord, score |-> Null,
     tokens |-> <<>>, failed |-> {}, save |-> "idle",
     lookups |-> [l \in LookupNames |-> "idle"], events |-> <<>>]

\* a check is started by the form of the landing screen, or by a click on an
\* entry of the list of the results screen, which shows the last result;
\* args holds the state constants of the render whose handler runs
InitAggregator ==
    /\ \/ args \in [tokenCA : TokenInputs, devTwitter : HandleInputs, entry : {None},
                     screen : {"landing"}, currentResult : {None}]
       \/ args \in [tokenCA : {"abc", PlainMint}, devTwitter : {""}, entry : {None},
                     screen : {"landing"},
                     currentResult : {Some(PreviousResult(PlainMint))}]
       \/ args \in [tokenCA : {PumpMint}, devTwitter : {""},
                     entry : { Some(e) : e \in RecentEntries },
                     screen : {"results"}, currentResult : {Some(PreviousResult(PumpMint))}]
    /\ ret = args.currentResult
    /\ locals = FreshState(args.tokenCA, args.devTwitter, args.screen)
    /\ heliusKey \in BOOLEAN
    /\ pc = "start"
    /\ now = 0
    /\ chain = [history |-> 0, blockTimes |-> TRUE]
    /\ net = <<>>
    /\ threw = FALSE

IsCheck == "tokenCA" \in DOMAIN args

\* App.jsx:66-77, checkToken up to its first await, run by the render whose
\* state holds tokenCA and devTwitter; state is the state after the setters
\* called before it
checkTokenStart(tokenCA, devTwitter, state) ==
    IF isValidSolanaAddress(tokenCA)
    THEN /\ locals' = [state EXCEPT !.screen = "loading", !.error = Null,
                                    !.checked = tokenCA,
                                    !.handle = cleanTwitterHandle(devTwitter)]
         /\ net' = Append(net, Request("rugcheck", "getTokenReport", <<tokenCA>>))
         /\ pc' = "await:getTokenReport"
    ELSE /\ locals' = [state EXCEPT !.error = "ngmi - invalid address",
                                    !.checked = tokenCA]
         /\ net' = net
         /\ pc' = "done"

\* the form of the landing screen is submitted (App.jsx:295, 327-330)
CheckToken_Validate ==
    /\ pc = "start"
    /\ IsCheck
    /\ args.entry = None
    /\ checkTokenStart(args.tokenCA, args.devTwitter, locals)
    /\ UNCHANGED <<heliusKey, now, chain, args, ret, threw>>

\* handleTokenClick (App.jsx:281-285): the setters queue the entry's values
\* for the next render, and checkToken of this render is called
HandleTokenClick ==
    /\ pc = "start"
    /\ IsCheck
    /\ args.entry # None
    /\ LET entry == args.entry[1]
           state == [locals EXCEPT
                       !.input = [tokenCA |-> entry.tokenAddress,
                                  devTwitter |-> IF TruthyStr(entry.twitterHandle)
                                                 THEN entry.twitterHandle ELSE ""]]
       IN  checkTokenStart(args.tokenCA, args.devTwitter, state)
    /\ UNCHANGED <<heliusKey, now, chain, args, ret, threw>>

\* App.jsx:267-271, the catch of checkToken
checkTokenCatch ==
    /\ locals' = [locals EXCEPT !.screen = "landing", !.error = "something broke lmao"]
    /\ pc' = "done"

\* App.jsx:77-93: the token report arrives; findRealDeployer is called
CheckToken_TokenReport ==
    /\ pc = "await:getTokenReport"
    /\ IsCheck
    /\ \E outcome \in ProviderOutcomes, body \in TokenReportBodies(locals.checked) :
         LET report == getTokenReport(outcome, body)
         IN  /\ Detailed \/ body.creatorTokens = None
             /\ CASE report.outcome = "rejected" ->
                    /\ locals' = [locals EXCEPT !.report = Some(report),
                                     !.screen = "landing", !.error = "something broke lmao"]
                    /\ pc' = "done"
                    /\ net' = net
               [] report.outcome = "null" ->
                    /\ locals' = [locals EXCEPT !.report = Some(report),
                                     !.screen = "landing", !.error = "token not found ser"]
                    /\ pc' = "done"
                    /\ net' = net
               [] report.outcome = "ok" /\ ~TruthyStr(report.creator) ->
                    /\ locals' = [locals EXCEPT !.report = Some(report),
                                     !.screen = "landing", !.error = "no deployer found"]
                    /\ pc' = "done"
                    /\ net' = net
               [] OTHER ->
                    /\ locals' = [locals EXCEPT !.report = Some(report)]
                    /\ pc' = "await:findRealDeployer"
                    /\ net' = Append(net, Request("solscan", "findRealDeployer",
                                                  <<locals.checked, report.creator>>))
    /\ UNCHANGED <<heliusKey, now, chain, args, ret, threw>>

\* App.jsx:93-149: findRealDeployer has returned the reported creator or a
\* wallet it found; the three lookups are called one after the other and
\* Promise.all awaits them
CheckToken_Resolved ==
    /\ pc = "await:findRealDeployer"
    /\ IsCheck
    /\ \E deployerWallet \in {locals.report[1].creator, WalletB}, failed \in BOOLEAN :
         /\ failed => deployerWallet = locals.report[1].creator
         /\ Detailed \/ deployerWallet = locals.report[1].creator
         /\ locals' = [locals EXCEPT
                         !.deployerWallet = deployerWallet,
                         !.failed = IF failed THEN {"indexer", "rpc"} ELSE {},
                         !.lookups = [l \in LookupNames |-> "pending"],
                         !.events = locals.events \o <<Event("resolved", "findRealDeployer")>>
                                        \o [i \in 1..Len(Lookups) |-> Event("issue", Lookups[i])]]
         /\ net' = net \o << Request("solscan", "getDeployerInfo", <<deployerWallet>>),
                             Request("birdeye", "getDeployerWalletInfo", <<deployerWallet>>),
                             Request("fairscale", "getFairScore",
                                     <<deployerWallet, locals.handle>>) >>
    /\ pc' = "await:Promise.all"
    /\ UNCHANGED <<heliusKey, now, chain, args, ret, threw>>

\* one of the lookups returns its record, or rejects
Lookup_Settle ==
    /\ IsCheck
    /\ \E l \in LookupNames :
         /\ locals.lookups[l] = "pending"
         /\ Detailed \/ \A i, j \in 1..Len(Lookups) :
                            (Lookups[j] = l /\ i < j) => locals.lookups[Lookups[i]] # "pending"
         /\ CASE l = "getDeployerInfo" ->
                   \E info \in DeployerInfos(locals.deployerWallet) :
                      /\ ("rpc" \in locals.failed) => info = NullRecord
                      /\ locals' = [locals EXCEPT
                                      !.lookups[l] = "settled",
                                      !.deployerInfo = info,
                                      !.events = Append(locals.events, Event("settle", l))]
              [] l = "getDeployerWalletInfo" ->
                   \E failed \in BOOLEAN :
                      locals' = [locals EXCEPT
                                   !.lookups[l] = "settled",
                                   !.failed = IF failed THEN @ \cup {"walletValue"} ELSE @,
                                   !.events = Append(locals.events, Event("settle", l))]
              [] l = "getFairScore" ->
                   \E outcome \in ProviderOutcomes :
                      LET s == getFairScore(locals.deployerWallet, outcome)
                      IN  locals' = [locals EXCEPT
                                       !.lookups[l] = IF s.threw THEN "rejected" ELSE "settled",
                                       !.score = s.source,
                                       !.failed = IF outcome # "ok" THEN @ \cup {"score"} ELSE @,
                                       !.events = Append(locals.events, Event("settle", l))]
    /\ UNCHANGED <<heliusKey, now, chain, args, pc, net, ret, threw>>

\* the request a token scan sends (solscan.js:336-345): none without an
\* indexer or without an address
scanRequests(address) ==
    IF HELIUS_ENHANCED_API(heliusKey) = Null \/ ~TruthyStr(address) THEN <<>>
    ELSE << Request(HELIUS_ENHANCED_API(heliusKey) \o "/addresses/" \o address
                        \o "/transactions",
                    "GET", <<HELIUS_LIMIT_TOKENS>>) >>

\* what a token scan returns (solscan.js:335-391) given the indexer's answer
scanResult(address, token, resp) ==
    IF HELIUS_ENHANCED_API(heliusKey) = Null \/ ~TruthyStr(address) THEN <<>>
    ELSE createdTokens(address, token, resp).result

\* App.jsx:195, the call of generateRoast
callRoast == Request("grok", "generateRoast", <<>>)

\* App.jsx:145-157: Promise.all resolves or rejects; the deployer's token
\* scan is called if the report had no creatorTokens, else generateRoast
CheckToken_Join ==
    /\ pc = "await:Promise.all"
    /\ IsCheck
    /\ \/ joinReady(locals.lookups)
       \/ \E l \in LookupNames : locals.lookups[l] = "rejected"
    /\ IF \E l \in LookupNames : locals.lookups[l] = "rejected"
       THEN checkTokenCatch /\ net' = net
       ELSE IF scansTokens(locals.report[1])
       THEN /\ locals' = [locals EXCEPT
                            !.events = Append(locals.events, Event("join", "Promise.all"))]
            /\ net' = net \o scanRequests(locals.deployerWallet)
            /\ pc' = "await:getDeployerCreatedTokens"
       ELSE /\ locals' = [locals EXCEPT
                            !.tokens = rugcheckCreatorTokens(locals.report[1]),
                            !.events = Append(locals.events, Event("join", "Promise.all"))]
            /\ net' = Append(net, callRoast)
            /\ pc' = "await:generateRoast"
    /\ UNCHANGED <<heliusKey, now, chain, args, ret, threw>>

\* the lookups completed in the order they were issued in and none failed
PlainLookups ==
    /\ locals.failed = {}
    /\ Pos(Event("settle", Lookups[1])) < Pos(Event("settle", Lookups[2]))
    /\ Pos(Event("settle", Lookups[2])) < Pos(Event("settle", Lookups[3]))

\* the answers tried for a scan: all of them after plain lookups, a failure
\* and a creation after the others
ScanResponsesFor(wallet, token) ==
    IF Detailed /\ PlainLookups THEN ScanResponses(wallet, token)
    ELSE { resp \in ScanResponses(wallet, token) :
             resp.outcome # "ok" \/ Len(resp.body.txs) > 0 }

\* App.jsx:157-164: the deployer's tokens arrive; the funder's scan is
\* called if there is a funder other than the deployer, else generateRoast
CheckToken_Tokens ==
    /\ pc = "await:getDeployerCreatedTokens"
    /\ IsCheck
    /\ \E resp \in ScanResponsesFor(locals.deployerWallet, locals.checked) :
         \E deployerTokens \in {scanResult(locals.deployerWallet, locals.checked, resp)},
            fundedBy \in {locals.deployerInfo.fundedBy} :
             /\ locals' = [locals EXCEPT
                             !.tokens = deployerTokens,
                             !.failed = IF resp.outcome # "ok" \/ resp.body.kind # "array"
                                        THEN @ \cup {"indexer"} ELSE @]
             /\ IF TruthyStr(fundedBy) /\ fundedBy # locals.deployerWallet
                THEN /\ net' = net \o scanRequests(fundedBy)
                     /\ pc' = "await:getDeployerCreatedTokens:funder"
                ELSE /\ net' = Append(net, callRoast)
                     /\ pc' = "await:generateRoast"
    /\ UNCHANGED <<heliusKey, now, chain, args, ret, threw>>

\* App.jsx:164-195: the funder's tokens arrive and are merged with the
\* deployer's; generateRoast is called
CheckToken_FunderTokens ==
    /\ pc = "await:getDeployerCreatedTokens:funder"
    /\ IsCheck
    /\ \E resp \in ScanResponsesFor(locals.deployerInfo.fundedBy, locals.checked) :
         \E funderTokens \in {scanResult(locals.deployerInfo.fundedBy, locals.checked, resp)} :
             locals' = [locals EXCEPT
                          !.tokens = mergeTokens(locals.tokens, funderTokens),
                          !.failed = IF resp.outcome # "ok" \/ resp.body.kind # "array"
                                     THEN @ \cup {"indexer"} ELSE @]
    /\ net' = Append(net, callRoast)
    /\ pc' = "await:generateRoast"
    /\ UNCHANGED <<heliusKey, now, chain, args, ret, threw>>

\* App.jsx:195-265: the roast arrives; the result is assembled and shown,
\* saved in local storage and sent to the recent-checks server
CheckToken_Assemble ==
    /\ pc = "await:generateRoast"
    /\ IsCheck
    /\ \E outcome \in ProviderOutcomes :
         /\ ret' = Some([tokenAddress |-> locals.checked,
                         deployerWallet |-> locals.deployerWallet,
                         twitterHandle |-> locals.handle,
                         score |-> locals.score,
                         roast |-> cleanRoast(generateRoast(outcome)),
                         tokensLaunched |-> Len(locals.tokens) + 1,
                         fundedBy |-> locals.deployerInfo.fundedBy,
                         fundingTx |-> locals.deployerInfo.fundingTx,
                         creatorTokens |-> locals.tokens])
         /\ locals' = [locals EXCEPT
                         !.screen = "roast",
                         !.save = "pending",
                         !.failed = IF outcome # "ok" THEN @ \cup {"roast"} ELSE @,
                         !.events = Append(locals.events, Event("assemble", "result"))]
    /\ net' = Append(net, Request("recent-checks", "saveRecentCheck", <<locals.checked>>))
    /\ pc' = "done"
    /\ UNCHANGED <<heliusKey, now, chain, args, threw>>

\* App.jsx:255-264 and services/recentChecks: the server's answer to the
\* save arrives; on a failure saveRecentCheck gives null and nothing is done
SaveRecentCheck_Settle ==
    /\ IsCheck
    /\ locals.save = "pending"
    /\ \E outcome \in ProviderOutcomes :
         /\ locals' = [locals EXCEPT
                         !.save = IF outcome = "ok" THEN "saved" ELSE "failed",
                         !.failed = IF outcome # "ok" THEN @ \cup {"recentChecks"} ELSE @]
         /\ net' = IF outcome = "ok"
                   THEN Append(net, Request("recent-checks", "fetchRecentChecks", <<>>))
                   ELSE net
    /\ UNCHANGED <<heliusKey, now, chain, args, pc, ret, threw>>

NextAggregator ==
    \/ CheckToken_Validate
    \/ HandleTokenClick
    \/ CheckToken_TokenReport
    \/ CheckToken_Resolved
    \/ Lookup_Settle
    \/ CheckToken_Join
    \/ CheckToken_Tokens
    \/ CheckToken_FunderTokens
    \/ CheckToken_Assemble
    \/ SaveRecentCheck_Settle

SpecAggregator == InitAggregator /\ [][NextAggregator]_vars

\* C16: each of the three lookups is issued after findRealDeployer has
\* returned and before any of the three has completed, all three are issued
\* together, and the result is assembled only after all three have completed.
C16_ConcurrentLookups ==
    IsCheck =>
        /\ \A l \in LookupNames :
              Pos(Event("issue", l)) > 0 =>
                 /\ Pos(Event("resolved", "findRealDeployer")) > 0
                 /\ Pos(Event("resolved", "findRealDeployer")) < Pos(Event("issue", l))
                 /\ \A k \in LookupNames :
                       /\ Pos(Event("issue", k)) > 0
                       /\ Pos(Event("settle", k)) > 0
                             => Pos(Event("issue", l)) < Pos(Event("settle", k))
        /\ Pos(Event("assemble", "result")) > 0 =>
              \A l \in LookupNames :
                 /\ Pos(Event("settle", l)) > 0
                 /\ Pos(Event("settle", l)) < Pos(Event("assemble", "result"))

\* a result was assembled after the lookups completed in the reverse of the
\* order they were issued in
C16_Witness ==
    /\ IsCheck
    /\ pc = "done"
    /\ locals.screen = "roast"
    /\ Pos(Event("settle", "getFairScore")) > 0
    /\ Pos(Event("settle", "getFairScore")) < Pos(Event("settle", "getDeployerWalletInfo"))
    /\ Pos(Event("settle", "getDeployerWalletInfo")) < Pos(Event("settle", "getDeployerInfo"))
    /\ Pos(Event("settle", "getDeployerInfo")) < Pos(Event("assemble", "result"))

\* the token report arrived and carries a creator
ReportHasCreator ==
    /\ IsCheck
    /\ locals.report # None
    /\ locals.report[1].outcome = "ok"
    /\ TruthyStr(locals.report[1].creator)

\* checkToken has returned with the roast screen shown and a result record
\* assembled for the token it checked
EndedOnRoast ==
    /\ pc = "done"
    /\ locals.screen = "roast"
    /\ locals.error = Null
    /\ ret # None
    /\ ret[1].tokenAddress = locals.checked
    /\ Pos(Event("assemble", "result")) > 0

\* the requests sent and the events of a check are fewer than this
MaxSteps == 20

ScanRequestsSent ==
    { j \in 1..Len(net) : net[j].method = "GET" /\ net[j].params = <<HELIUS_LIMIT_TOKENS>> }

\* getDeployerCreatedTokens has been called and has not returned
ScanPending ==
    pc \in {"await:getDeployerCreatedTokens", "await:getDeployerCreatedTokens:funder"}

\* the token report lists at least one creator token
ReportListsTokens ==
    /\ locals.report # None
    /\ locals.report[1].creatorTokens # None
    /\ locals.report[1].creatorTokens[1] # <<>>

ClickedOther ==
    /\ IsCheck
    /\ args.entry # None
    /\ args.entry[1].tokenAddress # args.tokenCA
    /\ pc # "start"

\* the token report requested by the check
ReportRequests ==
    { j \in 1..Len(net) : net[j].method = "getTokenReport" }

\* C24: a click on an entry whose tokenAddress differs from the token held
\* in the input state starts a check of the entry's token: the address
\* checkToken validates and passes to getTokenReport is entry.tokenAddress,
\* and the handle it uses is entry.twitterHandle.
C24_RecheckClicked ==
    ClickedOther =>
        /\ locals.checked = args.entry[1].tokenAddress
        /\ \A j \in ReportRequests : net[j].params = <<args.entry[1].tokenAddress>>
        /\ locals.handle = args.entry[1].twitterHandle

\* the address checkToken was run on is no string of 32 to 44 base58
\* characters
RejectedInput ==
    /\ IsCheck
    /\ pc # "start"
    /\ \/ locals.checked \in {Null, ""}
       \/ Len(locals.checked) < ADDRESS_LEN_MIN
       \/ Len(locals.checked) > ADDRESS_LEN_MAX
       \/ ~IsBase58(locals.checked)

\* C25: when the submitted address fails the format validation, checkToken
\* sets an error message, leaves the screen and the current result as they
\* were, sends no request at all and has returned.
C25_InputRejection ==
    RejectedInput =>
        /\ locals.error = "ngmi - invalid address"
        /\ locals.screen = args.screen
        /\ ret = args.currentResult
        /\ net = <<>>
        /\ pc = "done"
        /\ locals.save = "idle"
        /\ \A l \in LookupNames : locals.lookups[l] = "idle"

\* an address of 44 characters, one of them no base58 character, was
\* rejected
C25_Witness ==
    /\ RejectedInput
    /\ Len(locals.checked) = ADDRESS_LEN_MAX
    /\ locals.error = "ngmi - invalid address"
    /\ net = <<>>

----------------------------------------------------------------------------
\* The recent-checks list: api/recent-checks.js (KV), server/index.js (file)
\* and saveToLeaderboard (localStorage)

MAX_ENTRIES_SERVER == 100
MAX_ENTRIES_LOCAL == 50

MaxPosts == 2

Stores == {"kv", "file", "local"}

MAX_ENTRIES(store) == IF store = "local" THEN MAX_ENTRIES_LOCAL ELSE MAX_ENTRIES_SERVER

\* data.filter(e => e.tokenAddress !== entry.tokenAddress)
filterOut(data, tokenAddress) ==
    LET keep(e) == e.tokenAddress # tokenAddress
    IN  SelectSeq(data, keep)

\* the last n elements kept instead of the first n
slice0_FromEnd(arr, n) == SubSeq(arr, Len(arr) - Min(n, Len(arr)) + 1, Len(arr))

\* Array.prototype.slice(0, n)
slice0(arr, n) == SubSeq(arr, 1, Min(n, Len(arr)))

\* the new entry put in front of everything stored
insertEntry_NoFilter(data, newEntry, cap) == slice0(<<newEntry>> \o data, cap)

\* [newEntry, ...filtered].slice(0, MAX_ENTRIES)
insertEntry(data, newEntry, cap) ==
    slice0(<<newEntry>> \o filterOut(data, newEntry.tokenAddress), cap)

\* { ...entry, id: entry.tokenAddress, serverCheckedAt: Date.now() } on the
\* servers; the entry itself in saveToLeaderboard
newEntry(store, entry, nowMs) ==
    IF store = "local" THEN entry
    ELSE [tokenAddress |-> entry.tokenAddress, checkedAt |-> entry.checkedAt,
          id |-> entry.tokenAddress, serverCheckedAt |-> nowMs]

TokenAddr(i) == "token" \o ToString(i)

\* a list left by n earlier inserts of distinct tokens, the latest first
StoredList(store, n) ==
    [i \in 1..n |-> newEntry(store, [tokenAddress |-> TokenAddr(n + 1 - i), checkedAt |-> 0], 0)]

\* request bodies: a token in every stored list, one at the end of a full
\* list, two new ones, and a body without tokenAddress
PostedAddresses(store) ==
    {TokenAddr(MAX_ENTRIES(store)), TokenAddr(1), "tokenX", "tokenY", ""}

InitRecent ==
    /\ args \in [store : Stores]
    /\ \E n \in {0, MAX_ENTRIES(args.store) - 1, MAX_ENTRIES(args.store)} :
         /\ chain = [list |-> StoredList(args.store, n)]
         /\ locals = [requests |-> <<>>, last |-> None, overlapped |-> FALSE,
                      initial |-> StoredList(args.store, n), inserted |-> <<>>]
    /\ pc = "serving"
    /\ now = 1
    /\ heliusKey = FALSE
    /\ net = <<>>
    /\ ret = None
    /\ threw = FALSE

IsRecent == "store" \in DOMAIN args

Body(address, k) == [tokenAddress |-> address, checkedAt |-> k]

\* the requests suspended at an await of the KV handler
InFlight(requests) == { r \in 1..Len(requests) : requests[r].pc # "done" }

\* POST on the KV handler up to its first await (recent-checks.js:23-31)
KvPost_Receive ==
    /\ IsRecent /\ args.store = "kv"
    /\ Len(locals.requests) < MaxPosts
    /\ \E a \in PostedAddresses(args.store) :
         LET k == Len(locals.requests) + 1
         IN  locals' = [locals EXCEPT
                 !.requests = Append(locals.requests,
                     [entry |-> Body(a, k),
                      pc |-> IF TruthyStr(a) THEN "kv.get" ELSE "done",
                      status |-> IF TruthyStr(a) THEN 0 ELSE 400,
                      updated |-> <<>>]),
                 !.overlapped = @ \/ InFlight(locals.requests) # {},
                 !.last = None]
    /\ UNCHANGED <<heliusKey, now, chain, args, pc, net, ret, threw>>

\* kv.get answers; the new list is computed and kv.set is called
\* (recent-checks.js:31-46)
KvPost_Get ==
    /\ IsRecent
    /\ \E r \in 1..Len(locals.requests), ok \in BOOLEAN :
         /\ locals.requests[r].pc = "kv.get"
         /\ locals' = [locals EXCEPT
                 !.requests[r] =
                     IF ok
                     THEN [@ EXCEPT !.pc = "kv.set",
                                    !.updated = insertEntry(chain.list,
                                                    newEntry("kv", locals.requests[r].entry, now),
                                                    MAX_ENTRIES("kv"))]
                     ELSE [@ EXCEPT !.pc = "done", !.status = 500],
                 !.last = None]
    /\ UNCHANGED <<heliusKey, now, chain, args, pc, net, ret, threw>>

\* kv.set stores the list and the handler answers (recent-checks.js:46-48)
KvPost_Set ==
    /\ IsRecent
    /\ \E r \in 1..Len(locals.requests), ok \in BOOLEAN :
         /\ locals.requests[r].pc = "kv.set"
         /\ chain' = IF ok THEN [chain EXCEPT !.list = locals.requests[r].updated] ELSE chain
         /\ locals' = [locals EXCEPT
                 !.requests[r] = [@ EXCEPT !.pc = "done",
                                           !.status = IF ok THEN 200 ELSE 500],
                 !.inserted = IF ok THEN Append(@, locals.requests[r].entry.tokenAddress)
                              ELSE @,
                 !.last = IF ok THEN Some(locals.requests[r].updated[1]) ELSE None]
    /\ UNCHANGED <<heliusKey, now, args, pc, net, ret, threw>>

\* POST on the express server (server/index.js:49-72); saveData keeps its
\* failure to itself
FilePost ==
    /\ IsRecent /\ args.store = "file"
    /\ Len(locals.requests) < MaxPosts
    /\ \E a \in PostedAddresses(args.store), written \in BOOLEAN :
         LET k == Len(locals.requests) + 1
             e == newEntry("file", Body(a, k), now)
             updated == insertEntry(chain.list, e, MAX_ENTRIES("file"))
             stored == TruthyStr(a) /\ written
         IN  /\ chain' = IF stored THEN [chain EXCEPT !.list = updated] ELSE chain
             /\ locals' = [locals EXCEPT
                     !.requests = Append(locals.requests,
                         [entry |-> Body(a, k), pc |-> "done",
                          status |-> IF TruthyStr(a) THEN 200 ELSE 400,
                          updated |-> IF TruthyStr(a) THEN updated ELSE <<>>]),
                     !.inserted = IF stored THEN Append(@, a) ELSE @,
                     !.last = IF stored THEN Some(e) ELSE None]
    /\ UNCHANGED <<heliusKey, now, args, pc, net, ret, threw>>

\* saveToLeaderboard (utils/storage); a throwing setItem leaves the list
SaveToLeaderboard ==
    /\ IsRecent /\ args.store = "local"
    /\ Len(locals.requests) < MaxPosts
    /\ \E a \in PostedAddresses(args.store), written \in BOOLEAN :
         LET k == Len(locals.requests) + 1
             e == newEntry("local", Body(a, k), now)
             updated == insertEntry(chain.list, e, MAX_ENTRIES("local"))
         IN  /\ chain' = IF written THEN [chain EXCEPT !.list = updated] ELSE chain
             /\ ret' = IF written THEN updated ELSE chain.list
             /\ locals' = [locals EXCEPT
                     !.requests = Append(locals.requests,
                         [entry |-> Body(a, k), pc |-> "done", status |-> 0,
                          updated |-> updated]),
                     !.inserted = IF written THEN Append(@, a) ELSE @,
                     !.last = IF written THEN Some(e) ELSE None]
    /\ UNCHANGED <<heliusKey, now, args, pc, net, threw>>

NextRecent ==
    \/ KvPost_Receive
    \/ KvPost_Get
    \/ KvPost_Set
    \/ FilePost
    \/ SaveToLeaderboard

SpecRecent == InitRecent /\ [][NextRecent]_vars

\* C17: the stored list never holds two entries of one tokenAddress and never
\* more than the cap (100 on the servers, 50 locally), under any interleaving
\* of POSTs; an insert that has just been stored put its entry first and left
\* no other entry of that tokenAddress.
C17_RecentChecksBounded ==
    IsRecent =>
        /\ \A i, j \in 1..Len(chain.list) :
              chain.list[i].tokenAddress = chain.list[j].tokenAddress => i = j
        /\ Len(chain.list) <= MAX_ENTRIES(args.store)
        /\ locals.last # None =>
              /\ chain.list[1] = locals.last[1]
              /\ \A i \in 2..Len(chain.list) :
                    chain.list[i].tokenAddress # locals.last[1].tokenAddress

\* two POSTs on the KV handler ran concurrently on a full list, the second
\* for the token stored last: the list is still full and the entry replaced
C17_Witness ==
    /\ IsRecent
    /\ args.store = "kv"
    /\ Len(locals.requests) = 2
    /\ locals.requests[1].status = 200
    /\ locals.requests[2].status = 200
    /\ locals.requests[2].entry.tokenAddress = TokenAddr(1)
    /\ locals.last # None
    /\ locals.last[1] = newEntry("kv", Body(TokenAddr(1), 2), now)
    /\ Len(chain.list) = MAX_ENTRIES_SERVER
    /\ chain.list[1].checkedAt = 2

\* the tokenAddresses of a list, in its order
Addresses(list) == [i \in 1..Len(list) |-> list[i].tokenAddress]

Range(seq) == { seq[i] : i \in 1..Len(seq) }

\* when a tokenAddress was last inserted: the number of its latest stored
\* insert, or, for an entry stored before the first one, minus its position
Recency(a) ==
    LET log == locals.inserted
        first == Addresses(locals.initial)
    IN  IF a \in Range(log)
        THEN CHOOSE k \in 1..Len(log) : log[k] = a /\ \A m \in (k + 1)..Len(log) : log[m] # a
        ELSE 0 - (CHOOSE k \in 1..Len(first) : first[k] = a)

EverInserted == Range(Addresses(locals.initial)) \cup Range(locals.inserted)

BothAnswered ==
    /\ IsRecent
    /\ args.store = "kv"
    /\ locals.overlapped
    /\ Len(locals.requests) = 2
    /\ \A r \in 1..2 : locals.requests[r].pc = "done" /\ locals.requests[r].status = 200
    /\ locals.requests[1].entry.tokenAddress # locals.requests[2].entry.tokenAddress
    /\ Len(locals.initial) + 2 <= MAX_ENTRIES_SERVER

\* C27: when two POSTs for different tokens are processed concurrently by
\* the KV handler and both answer 200, the stored list holds both entries
\* once both have completed, the cap not being reached.
C27_NoLostUpdate ==
    BothAnswered =>
        \A r \in 1..2 :
            locals.requests[r].entry.tokenAddress \in Range(Addresses(chain.list))

\* C28: in every record getDeployerInfo returns, from the indexer or from
\* RPC, fundingTx is non-null only if fundedBy is non-null: a signature is
\* reported as the funding transaction only when a funder was found in it.
C28_FundingTxOnlyWithFunder ==
    ProvenanceDone => (ret.fundingTx # Null => ret.fundedBy # Null)

\* C29: getDeployerInfo never reports a wallet as its own funder: in every
\* record, from the indexer or from RPC (top-level and inner instructions),
\* fundedBy is null or an address other than walletAddress.
C29_NeverOwnFunder ==
    ProvenanceDone => (ret.fundedBy = Null \/ ret.fundedBy # args.walletAddress)

\* C30: the creatorTokens of an assembled result never holds the token that
\* was checked, whether the list came from the token report or from the
\* scans of the deployer and of the funder, so that tokensLaunched, the
\* length of the list plus one, counts the checked token once.
C30_CheckedTokenExcluded ==
    (IsCheck /\ EndedOnRoast) =>
        /\ \A i \in 1..Len(ret[1].creatorTokens) :
              ret[1].creatorTokens[i].mint # locals.checked
        /\ ret[1].tokensLaunched = Len(ret[1].creatorTokens) + 1

====
